---- MODULE Spec2Model ----
(***************************************************************************)
(* Model of the Erlang External Term Format codec (package etf):           *)
(* the Encoder (write.go), the Decoder (read.go) and the value types       *)
(* (etf.go).                                                               *)
(*                                                                         *)
(* Representation.  A byte is a number in 0..255 and a byte slice is a     *)
(* sequence of bytes.  A fixed-width machine integer is the big-endian     *)
(* sequence of its bytes (two's complement when signed): an int64 is 8     *)
(* bytes, a uint32 is 4 bytes.  A big.Int is the record [neg, abs] of the  *)
(* Go implementation, abs being the minimal big-endian magnitude.  A Go    *)
(* value held in an interface is a record whose field "kind" names its     *)
(* dynamic type; fields of one name hold values of one type (b a boolean, v   *)
(* bytes, elems a sequence of values).                                     *)
(***************************************************************************)
EXTENDS Integers, Sequences, FiniteSets, TLC

VARIABLES intBytes, w, dbuf, hist, decoded

vars == <<intBytes, w, dbuf, hist, decoded>>

(***************************************************************************)
(* Tags and limits                                                         *)
(***************************************************************************)
ettAtom == 100
ettAtomUTF8 == 118
ettBinary == 109
ettBitBinary == 77
ettCacheRef == 82
ettExport == 113
ettFloat == 99
ettFun == 117
ettInteger == 98
ettLargeBig == 111
ettLargeTuple == 105
ettList == 108
ettNewFloat == 70
ettNewFun == 112
ettNewRef == 114
ettNil == 106
ettPid == 103
ettPort == 102
ettRef == 101
ettSmallAtom == 115
ettSmallAtomUTF8 == 119
ettSmallBig == 110
ettSmallInteger == 97
ettSmallTuple == 104
ettString == 107
EtVersion == 131

MaxUint8 == 255
MaxUint16 == 65535

Byte == 0..255

(***************************************************************************)
(* Byte-slice helpers                                                      *)
(***************************************************************************)
Rep(b, n) == [i \in 1..n |-> b]

Take(s, n) == SubSeq(s, 1, n)

Drop(s, n) == SubSeq(s, n + 1, Len(s))

\* byte(n): conversion of an integer to a byte keeps the low 8 bits
byte(n) == n % 256

\* n >> k on a Go int (arithmetic shift)
shr(n, k) == n \div (2 ^ k)

reverse(b) == [i \in 1..Len(b) |-> b[Len(b) + 1 - i]]

\* lexicographic order on byte sequences of one length
LexLess(a, b) ==
  \E i \in 1..Len(a) : a[i] < b[i] /\ \A j \in 1..(i - 1) : a[j] = b[j]

\* drop the leading zero bytes (the normal form of a magnitude)
Norm(b) ==
  LET nz == {i \in 1..Len(b) : b[i] # 0}
  IN IF nz = {} THEN <<>>
     ELSE SubSeq(b, CHOOSE i \in nz : \A j \in nz : i <= j, Len(b))

\* zero-extend a magnitude to n bytes, or keep its low n bytes
LowBytes(b, n) ==
  IF Len(b) >= n THEN SubSeq(b, Len(b) - n + 1, Len(b))
  ELSE Rep(0, n - Len(b)) \o b

\* b + 1 modulo 256^Len(b)
Inc(b) ==
  [i \in 1..Len(b) |->
     IF \A j \in (i + 1)..Len(b) : b[j] = 255 THEN (b[i] + 1) % 256 ELSE b[i]]

\* two's complement negation modulo 256^Len(b)
Neg2c(b) == Inc([i \in 1..Len(b) |-> 255 - b[i]])

\* sign extension of a two's complement number to n bytes
SignExt(b, n) ==
  IF Len(b) >= n THEN SubSeq(b, Len(b) - n + 1, Len(b))
  ELSE Rep(IF b[1] >= 128 THEN 255 ELSE 0, n - Len(b)) \o b

\* value of a short big-endian unsigned number (fewer than 31 bits)
RECURSIVE beUint(_)
beUint(b) ==
  IF b = <<>> THEN 0 ELSE 256 * beUint(Take(b, Len(b) - 1)) + b[Len(b)]

(***************************************************************************)
(* Fixed-width integers                                                    *)
(***************************************************************************)
\* the int64 / uint64 with the (small, non-negative) value n
I64(n) == <<0, 0, 0, 0>> \o <<shr(n, 24) % 256, shr(n, 16) % 256, shr(n, 8) % 256, n % 256>>

MinInt32 == <<255, 255, 255, 255, 128, 0, 0, 0>>

MaxInt32 == <<0, 0, 0, 0, 127, 255, 255, 255>>

IsNeg64(x) == x[1] >= 128

\* x <= y on int64
Le64(x, y) ==
  LET fx == [x EXCEPT ![1] = (x[1] + 128) % 256]
      fy == [y EXCEPT ![1] = (y[1] + 128) % 256]
  IN fx = fy \/ LexLess(fx, fy)

\* x <= y on uint64
LeU64(x, y) == x = y \/ LexLess(x, y)

(***************************************************************************)
(* math/big                                                                *)
(***************************************************************************)
\* big.NewInt(x)
bigNewInt(x) ==
  [neg |-> IsNeg64(x), abs |-> Norm(IF IsNeg64(x) THEN Neg2c(x) ELSE x)]

\* new(big.Int).SetUint64(x)
bigSetUint64(x) == [neg |-> FALSE, abs |-> Norm(x)]

\* new(big.Int).SetBytes(b)
bigSetBytes(b) == [neg |-> FALSE, abs |-> Norm(b)]

\* v.Neg(v)
bigNeg(v) == [neg |-> Len(v.abs) > 0 /\ ~v.neg, abs |-> v.abs]

\* v.Int64(): the low 64 bits of the magnitude, negated when v is negative
bigInt64(v) ==
  LET lo == LowBytes(v.abs, 8) IN IF v.neg THEN Neg2c(lo) ELSE lo

\* v.Uint64(): the low 64 bits of the magnitude
bigUint64(v) == LowBytes(v.abs, 8)

\* x.Sign()
bigSign(x) == IF Len(x.abs) = 0 THEN 0 ELSE IF x.neg THEN -1 ELSE 1

\* int(v64) on a platform whose int has intBytes bytes, held as an int64
toInt(v64) == SignExt(SubSeq(v64, 8 - intBytes + 1, 8), 8)

(***************************************************************************)
(* Errors.  An error is a string, "nil" being the nil error; the errors in *)
(* Panics are run-time panics, which unwind the whole call.                *)
(***************************************************************************)
NoErr == "nil"

ErrEOF == "EOF"

ErrUnexpectedEOF == "unexpected EOF"

ErrAtomTooBig == "atom is too big"

ErrStringTooBig == "string is too big"

ErrBinarySize == "bad binary size"

ErrBigIntSize == "bad big int size"

ErrUnknownType == "write: can't encode type"

ErrUnknownTerm == "read: unknown term type"

ErrFloatScan == "read: failed to sscanf float"

ErrSscanf == "fmt: scan error"

PanicTypeAssert == "panic: interface conversion"

PanicIndex == "panic: index out of range"

PanicNilDeref == "panic: nil pointer dereference"

PanicReflect == "panic: reflect: call on zero Value"

Panics == {PanicTypeAssert, PanicIndex, PanicNilDeref, PanicReflect}

\* the nil interface value
Nil == [kind |-> "nil"]

(***************************************************************************)
(* Encoder.  A write method yields [out, err]: the bytes it has written    *)
(* to the sink e.w (an in-memory buffer, whose Write never fails) and the  *)
(* error it returns.                                                       *)
(***************************************************************************)
\* byte(x >> k) of a fixed-width integer held as its big-endian bytes
shrByte(x, k) == x[Len(x) - (k \div 8)]

MaxUint32 == <<0, 0, 0, 0, 255, 255, 255, 255>>

\* writeAtom with the first bound off by one (size < MaxUint8)
writeAtomOffByOne(atom) ==
  LET size == Len(atom) IN
  IF size < MaxUint8 THEN
    [out |-> <<ettSmallAtom, byte(size)>> \o atom, err |-> NoErr]
  ELSE IF size <= MaxUint16 THEN
    [out |-> <<ettAtom, byte(shr(size, 8)), byte(size)>> \o atom, err |-> NoErr]
  ELSE
    [out |-> <<>>, err |-> ErrAtomTooBig]

writeAtom(atom) ==
  LET size == Len(atom) IN
  IF size <= MaxUint8 THEN
    [out |-> <<ettSmallAtom, byte(size)>> \o atom, err |-> NoErr]
  ELSE IF size <= MaxUint16 THEN
    [out |-> <<ettAtom, byte(shr(size, 8)), byte(size)>> \o atom, err |-> NoErr]
  ELSE
    [out |-> <<>>, err |-> ErrAtomTooBig]

writeBigInt(x) ==
  LET sign == IF bigSign(x) < 0 THEN 1 ELSE 0
      bytes == reverse(x.abs)
      size == Len(bytes)
  IN
  IF size <= MaxUint8 THEN
    [out |-> <<ettSmallBig, byte(size), byte(sign)>> \o bytes, err |-> NoErr]
  ELSE IF LeU64(I64(size), MaxUint32) THEN
    [out |-> <<ettLargeBig, byte(shr(size, 24)), byte(shr(size, 16)),
               byte(shr(size, 8)), byte(size), byte(sign)>> \o bytes,
     err |-> NoErr]
  ELSE
    [out |-> <<>>, err |-> ErrBigIntSize]

writeBinary(bytes) ==
  LET size == Len(bytes) IN
  IF LeU64(I64(size), MaxUint32) THEN
    [out |-> <<ettBinary, byte(shr(size, 24)), byte(shr(size, 16)),
               byte(shr(size, 8)), byte(size)>> \o bytes,
     err |-> NoErr]
  ELSE
    [out |-> <<>>, err |-> ErrBinarySize]

writeBool(b) ==
  IF b THEN [out |-> <<ettSmallAtom, 4, 116, 114, 117, 101>>, err |-> NoErr]
  ELSE [out |-> <<ettSmallAtom, 5, 102, 97, 108, 115, 101>>, err |-> NoErr]

\* f is math.Float64bits(f), as 8 bytes
writeFloat(f) ==
  [out |-> <<ettNewFloat, shrByte(f, 56), shrByte(f, 48), shrByte(f, 40),
             shrByte(f, 32), shrByte(f, 24), shrByte(f, 16), shrByte(f, 8),
             shrByte(f, 0)>>,
   err |-> NoErr]

\* writeInt without the lower bound x >= 0 of its first case
writeIntNoLower(x) ==
  IF Le64(x, I64(MaxUint8)) THEN
    [out |-> <<ettSmallInteger, shrByte(x, 0)>>, err |-> NoErr]
  ELSE IF Le64(MinInt32, x) /\ Le64(x, MaxInt32) THEN
    LET x32 == SubSeq(x, 5, 8) IN
    [out |-> <<ettInteger, shrByte(x32, 24), shrByte(x32, 16),
               shrByte(x32, 8), shrByte(x32, 0)>>,
     err |-> NoErr]
  ELSE
    writeBigInt(bigNewInt(x))

writeInt(x) ==
  IF Le64(I64(0), x) /\ Le64(x, I64(MaxUint8)) THEN
    [out |-> <<ettSmallInteger, shrByte(x, 0)>>, err |-> NoErr]
  ELSE IF Le64(MinInt32, x) /\ Le64(x, MaxInt32) THEN
    LET x32 == SubSeq(x, 5, 8) IN
    [out |-> <<ettInteger, shrByte(x32, 24), shrByte(x32, 16),
               shrByte(x32, 8), shrByte(x32, 0)>>,
     err |-> NoErr]
  ELSE
    writeBigInt(bigNewInt(x))

\* writeUint whose INTEGER case reaches up to math.MaxUint32
writeUintWide(x) ==
  IF LeU64(x, I64(MaxUint8)) THEN
    [out |-> <<ettSmallInteger, shrByte(x, 0)>>, err |-> NoErr]
  ELSE IF LeU64(x, MaxUint32) THEN
    [out |-> <<ettInteger, shrByte(x, 24), shrByte(x, 16), shrByte(x, 8),
               shrByte(x, 0)>>,
     err |-> NoErr]
  ELSE
    writeBigInt(bigSetUint64(x))

writeUint(x) ==
  IF LeU64(x, I64(MaxUint8)) THEN
    [out |-> <<ettSmallInteger, shrByte(x, 0)>>, err |-> NoErr]
  ELSE IF LeU64(x, MaxInt32) THEN
    [out |-> <<ettInteger, shrByte(x, 24), shrByte(x, 16), shrByte(x, 8),
               shrByte(x, 0)>>,
     err |-> NoErr]
  ELSE
    writeBigInt(bigSetUint64(x))

\* writePid with the bytes of Serial in little-endian order
writePidSerialLE(p) ==
  LET a == writeAtom(p.Node) IN
  IF a.err # NoErr THEN [out |-> <<ettPid>>, err |-> a.err]
  ELSE
    [out |-> <<ettPid>> \o a.out \o
             <<0, 0, shrByte(p.Id, 8), shrByte(p.Id, 0),
               shrByte(p.Serial, 0), shrByte(p.Serial, 8),
               shrByte(p.Serial, 16), shrByte(p.Serial, 24),
               p.Creation>>,
     err |-> NoErr]

writePid(p) ==
  LET a == writeAtom(p.Node) IN
  IF a.err # NoErr THEN [out |-> <<ettPid>>, err |-> a.err]
  ELSE
    [out |-> <<ettPid>> \o a.out \o
             <<0, 0, shrByte(p.Id, 8), shrByte(p.Id, 0),
               shrByte(p.Serial, 24), shrByte(p.Serial, 16),
               shrByte(p.Serial, 8), shrByte(p.Serial, 0),
               p.Creation>>,
     err |-> NoErr]

\* writeString with the bound of a one-byte length (size <= MaxUint8)
writeStringSmallCap(s) ==
  LET size == Len(s) IN
  IF size <= MaxUint8 THEN
    [out |-> <<ettString, byte(shr(size, 8)), byte(size)>> \o s, err |-> NoErr]
  ELSE
    [out |-> <<>>, err |-> ErrStringTooBig]

writeString(s) ==
  LET size == Len(s) IN
  IF size <= MaxUint16 THEN
    [out |-> <<ettString, byte(shr(size, 8)), byte(size)>> \o s, err |-> NoErr]
  ELSE
    [out |-> <<>>, err |-> ErrStringTooBig]

\* the concatenation of a sequence of byte slices
RECURSIVE Flatten(_)
Flatten(ss) ==
  IF ss = <<>> THEN <<>>
  ELSE IF Len(ss) = 1 THEN ss[1]
  ELSE Flatten(SubSeq(ss, 1, Len(ss) \div 2))
         \o Flatten(SubSeq(ss, Len(ss) \div 2 + 1, Len(ss)))

writeRef(ref) ==
  LET n == Len(ref.Id)
      hdr == <<ettNewRef, byte(shr(n, 8)), byte(n)>>
      a == writeAtom(ref.Node)
  IN
  IF a.err # NoErr THEN [out |-> hdr, err |-> a.err]
  ELSE
    [out |-> hdr \o a.out \o <<ref.Creation>> \o
             Flatten([i \in 1..n |->
                        <<shrByte(ref.Id[i], 24), shrByte(ref.Id[i], 16),
                          shrByte(ref.Id[i], 8), shrByte(ref.Id[i], 0)>>]),
     err |-> NoErr]

\* float64(v) of a float32 v, both as the bytes of their IEEE 754 bits
float64of32(b) ==
  LET s == b[1] \div 128
      e == (b[1] % 128) * 2 + b[2] \div 128
      m == (b[2] % 128) * 65536 + b[3] * 256 + b[4]
      k == CHOOSE i \in 0..22 : m = 0 \/ (2 ^ i <= m /\ m < 2 ^ (i + 1))
      E == IF e = 255 THEN 2047
           ELSE IF e = 0 THEN (IF m = 0 THEN 0 ELSE 874 + k)
           ELSE e + 896
      M == IF e = 255 THEN (IF m = 0 THEN 0 ELSE m + (IF m < 2 ^ 22 THEN 2 ^ 22 ELSE 0))
           ELSE IF e = 0 /\ m # 0 THEN (m - 2 ^ k) * 2 ^ (23 - k)
           ELSE m
  IN <<s * 128 + E \div 16, (E % 16) * 16 + M \div (2 ^ 19),
       (M \div (2 ^ 11)) % 256, (M \div 8) % 256, (M % 8) * 32, 0, 0, 0>>

IntKinds == {"int8", "int16", "int32", "int64", "int"}

UintKinds == {"uint8", "uint16", "uint32", "uint64", "uintptr", "uint"}

\* a uint8 / uint32 field of a struct, as the value its Interface() yields
u8Term(b) == [kind |-> "uint8", v |-> LowBytes(<<b>>, 8)]

u32Term(x) == [kind |-> "uint32", v |-> LowBytes(x, 8)]

atomTerm(a) == [kind |-> "atom", v |-> a]

field(val) == [Anonymous |-> FALSE, Exported |-> TRUE, val |-> val]

\* reflect.ValueOf(v).Kind() for the values the type switch does not name
reflectKind(term) ==
  CASE term.kind \in {"struct", "port", "export", "function"} -> "struct"
    [] term.kind \in {"list", "slice"} -> "slice"
    [] term.kind = "array" -> "array"
    [] term.kind = "ptr" -> "ptr"
    [] term.kind = "nil" -> "invalid"
    [] OTHER -> term.kind

\* rt.Field(i) and rv.FieldByIndex of a struct value, in declaration order
structFields(r) ==
  CASE r.kind = "struct" -> r.fields
    [] r.kind = "port" ->
         <<field(atomTerm(r.Node)), field(u32Term(r.Id)), field(u8Term(r.Creation))>>
    [] r.kind = "export" ->
         <<field(atomTerm(r.Module)), field(atomTerm(r.Function)), field(u8Term(r.Arity))>>
    [] r.kind = "function" ->
         <<field(u8Term(r.Arity)),
           field([kind |-> "array", elems |-> [i \in 1..Len(r.Unique) |-> u8Term(r.Unique[i])]]),
           field(u32Term(r.Index)), field(u32Term(r.Free)),
           field(atomTerm(r.Module)), field(u32Term(r.OldIndex)),
           field(u32Term(r.OldUnique)), field(r.Pid),
           field([kind |-> "slice", elems |-> r.FreeVars])>>

\* the reflect.Value that rv.Elem() yields, seen as a value: a struct with
\* the three fields typ_, ptr and the embedded flag, none of them exported
reflectValue(elem) ==
  [kind |-> "struct",
   fields |-> <<[Anonymous |-> FALSE, Exported |-> FALSE, val |-> Nil],
                [Anonymous |-> FALSE, Exported |-> FALSE, val |-> Nil],
                [Anonymous |-> TRUE, Exported |-> FALSE, val |-> Nil]>>]

RECURSIVE EncodeTerm(_), EncodeAll(_)

\* EncodeTerm on each element in turn, stopping at the first error (the
\* elements are taken half by half, which keeps the order of the calls)
EncodeAll(ts) ==
  IF ts = <<>> THEN [out |-> <<>>, err |-> NoErr]
  ELSE IF Len(ts) = 1 THEN EncodeTerm(ts[1])
  ELSE LET h == Len(ts) \div 2
           a == EncodeAll(SubSeq(ts, 1, h))
       IN IF a.err # NoErr THEN a
          ELSE LET r == EncodeAll(SubSeq(ts, h + 1, Len(ts))) IN
               [out |-> a.out \o r.out, err |-> r.err]

writeList(l) ==
  LET n == Len(l.elems)
      hdr == <<ettList, byte(shr(n, 24)), byte(shr(n, 16)), byte(shr(n, 8)), byte(n)>>
      r == EncodeAll(l.elems)
  IN IF r.err # NoErr THEN [out |-> hdr \o r.out, err |-> r.err]
     ELSE [out |-> hdr \o r.out \o <<ettNil>>, err |-> NoErr]

\* a writer that skips the unexported fields only
keepEmbedded(f) == f.Exported

keepField(f) == ~(f.Anonymous \/ ~f.Exported)

writeRecord(r) ==
  LET fields == SelectSeq(structFields(r), keepField)
      n == Len(fields)
      hdr == IF n <= MaxUint8 THEN <<ettSmallTuple, byte(n)>>
             ELSE <<ettLargeTuple, byte(shr(n, 24)), byte(shr(n, 16)),
                    byte(shr(n, 8)), byte(n)>>
      e == EncodeAll([i \in 1..n |-> fields[i].val])
  IN [out |-> hdr \o e.out, err |-> e.err]

writeTuple(tuple) ==
  LET n == Len(tuple.elems)
      hdr == IF n <= MaxUint8 THEN <<ettSmallTuple, byte(n)>>
             ELSE <<ettLargeTuple, byte(shr(n, 24)), byte(shr(n, 16)),
                    byte(shr(n, 8)), byte(n)>>
      e == EncodeAll(tuple.elems)
  IN [out |-> hdr \o e.out, err |-> e.err]

EncodeTerm(term) ==
  CASE term.kind = "bool" -> writeBool(term.b)
    [] term.kind \in IntKinds -> writeInt(term.v)
    [] term.kind \in UintKinds -> writeUint(term.v)
    [] term.kind = "*big.Int" -> writeBigInt(term)
    [] term.kind = "string" -> writeString(term.v)
    [] term.kind = "[]byte" -> writeBinary(term.v)
    [] term.kind = "float64" -> writeFloat(term.v)
    [] term.kind = "float32" -> writeFloat(float64of32(term.v))
    [] term.kind = "atom" -> writeAtom(term.v)
    [] term.kind = "pid" -> writePid(term)
    [] term.kind = "tuple" -> writeTuple(term)
    [] term.kind = "ref" -> writeRef(term)
    [] OTHER ->
         CASE reflectKind(term) = "struct" -> writeRecord(term)
           [] reflectKind(term) \in {"array", "slice"} -> writeList(term)
           [] reflectKind(term) = "ptr" -> EncodeTerm(reflectValue(term.elem))
           [] reflectKind(term) = "invalid" -> [out |-> <<>>, err |-> PanicReflect]
           [] OTHER -> [out |-> <<>>, err |-> ErrUnknownType]

\* Encode without the version byte
EncodeNoVersion(term) == EncodeTerm(term)

Encode(term) ==
  LET r == EncodeTerm(term) IN [out |-> <<EtVersion>> \o r.out, err |-> r.err]

(***************************************************************************)
(* Decoder.  d.r is a bufio.Reader over the source: a reader is the bytes  *)
(* not yet read (bytes), of which the first buffered are held by the       *)
(* bufio.Reader and the others are still in the source.  A read yields the *)
(* value read, the error and the reader after the read (rest).             *)
(***************************************************************************)
PanicMakeslice == "panic: makeslice: len out of range"

Aborts == Panics \cup {PanicMakeslice}

\* len(b.buf) of a bufio.NewReader
defaultBufSize == 4096

Min(a, b) == IF a < b THEN a ELSE b

\* bufio.NewReader(r), r holding the bytes b
NewReader(b) == [bytes |-> b, buffered |-> 0]

\* the bytes held by the bufio.Reader after the Read calls of an
\* io.ReadFull that asks for m bytes, k bytes being held and src bytes being
\* in the source: a Read copies what is held; when nothing is held, a Read
\* for less than the buffer fills the buffer from the source, and a Read
\* for more reads from the source into the caller's slice
RECURSIVE readLoop(_, _, _)
readLoop(m, k, src) ==
  IF m = 0 THEN k
  ELSE IF k > 0 THEN readLoop(m - Min(m, k), k - Min(m, k), src)
  ELSE IF src = 0 THEN 0
  ELSE IF m >= defaultBufSize THEN readLoop(m - Min(m, src), 0, src - Min(m, src))
  ELSE readLoop(m, Min(defaultBufSize, src), src - Min(defaultBufSize, src))

\* a slice longer than this that a read did not fill is held as the bytes
\* read into it, the zero bytes after them left out
LongSlice == 131072

\* io.ReadFull(r, b) with len(b) = n: b is filled from the front; bytes that
\* could not be read stay zero
ReadFull(s, n) ==
  IF Len(s.bytes) >= n
  THEN [data |-> Take(s.bytes, n), err |-> NoErr,
        rest |-> [bytes |-> Drop(s.bytes, n),
                  buffered |-> readLoop(n, s.buffered, Len(s.bytes) - s.buffered)]]
  ELSE [data |-> IF n <= LongSlice THEN s.bytes \o Rep(0, n - Len(s.bytes)) ELSE s.bytes,
        err |-> IF Len(s.bytes) = 0 THEN ErrEOF ELSE ErrUnexpectedEOF,
        rest |-> NewReader(<<>>)]

\* r.ReadByte()
ruint8(s) ==
  IF Len(s.bytes) = 0 THEN [v |-> 0, err |-> ErrEOF, rest |-> NewReader(<<>>)]
  ELSE [v |-> s.bytes[1], err |-> NoErr,
        rest |-> [bytes |-> Tail(s.bytes),
                  buffered |-> readLoop(1, s.buffered, Len(s.bytes) - s.buffered)]]

\* the uint16 as a number
ruint16(s) ==
  LET r == ReadFull(s, 2) IN [v |-> beUint(r.data), err |-> r.err, rest |-> r.rest]

\* the uint32 as its 4 bytes
ruint32(s) ==
  LET r == ReadFull(s, 4) IN [v |-> r.data, err |-> r.err, rest |-> r.rest]

\* make([]T, x) panics, x being a uint32 and T having esize bytes: on a
\* 64-bit build never; on a 32-bit build when x is more than the largest int
\* or the x elements take 2^32 bytes or more
allocFails(x, esize) == intBytes = 4 /\ (x[1] >= 128 \/ x[1] * esize >= 256)

\* the size of a Term, an interface value of two words
termSize == 2 * intBytes

\* the length of a slice made for a uint32 length: a length of 2^31 and
\* more, which only a 64-bit int holds, stands as 2^31 - 1
MaxInt31 == 2147483647

\* the uint32 x as a number; 2^31 or more, which is more than any reader of
\* the model holds, as 2^31 - 1
lenOf(x) == IF x[1] >= 128 THEN MaxInt31 ELSE beUint(x)

\* the slice b after io.ReadFull(r, b) returned r, len(b) being the uint32 x
bytesRead(r, x) ==
  IF r.err # NoErr /\ lenOf(x) > LongSlice
  THEN [kind |-> "[]byte", v |-> r.data, len |-> x]
  ELSE [kind |-> "[]byte", v |-> r.data]

buint8(s) == ruint8(s)

buint16(s) == ruint16(s)

\* make([]byte, size) comes before the error is looked at: size is what
\* the bytes that were read make of it
buint32(s) ==
  LET h == ruint32(s) IN
  IF allocFails(h.v, 1) THEN [v |-> h.v, err |-> PanicMakeslice, rest |-> h.rest]
  ELSE h

bTrue == <<116, 114, 117, 101>>

bFalse == <<102, 97, 108, 115, 101>>

\* newAtom without the two boolean cases
newAtomNoBool(b) == [kind |-> "atom", v |-> b]

newAtom(b) ==
  IF b = bTrue THEN [kind |-> "bool", b |-> TRUE]
  ELSE IF b = bFalse THEN [kind |-> "bool", b |-> FALSE]
  ELSE [kind |-> "atom", v |-> b]

\* readBigInt without the reversal of the magnitude bytes
readBigIntNoReverse(s, size, sign) ==
  LET r == ReadFull(s, size) IN
  IF r.err # NoErr THEN [term |-> Nil, err |-> r.err, rest |-> r.rest]
  ELSE
    LET b == r.data
        v0 == bigSetBytes(b)
        v == IF sign # 0 THEN bigNeg(v0) ELSE v0
        v64 == bigInt64(v)
        x == toInt(v64)
    IN
    IF v = bigNewInt(x) THEN
      [term |-> [kind |-> "int", v |-> x], err |-> NoErr, rest |-> r.rest]
    ELSE IF v = bigNewInt(v64) THEN
      [term |-> [kind |-> "int64", v |-> v64], err |-> NoErr, rest |-> r.rest]
    ELSE
      [term |-> [kind |-> "*big.Int", neg |-> v.neg, abs |-> v.abs],
       err |-> NoErr, rest |-> r.rest]

\* readBigInt(r, b, sign) with len(b) = size
readBigInt(s, size, sign) ==
  LET r == ReadFull(s, size) IN
  IF r.err # NoErr THEN [term |-> Nil, err |-> r.err, rest |-> r.rest]
  ELSE
    LET b == reverse(r.data)
        v0 == bigSetBytes(b)
        v == IF sign # 0 THEN bigNeg(v0) ELSE v0
        v64 == bigInt64(v)
        x == toInt(v64)
    IN
    IF v = bigNewInt(x) THEN
      [term |-> [kind |-> "int", v |-> x], err |-> NoErr, rest |-> r.rest]
    ELSE IF v = bigNewInt(v64) THEN
      [term |-> [kind |-> "int64", v |-> v64], err |-> NoErr, rest |-> r.rest]
    ELSE
      [term |-> [kind |-> "*big.Int", neg |-> v.neg, abs |-> v.abs],
       err |-> NoErr, rest |-> r.rest]

\* the result of a Decode call
Result(term, err, rest) == [term |-> term, err |-> err, rest |-> rest]

decAtom(s, wide) ==
  LET h == IF wide THEN buint16(s) ELSE buint8(s) IN
  IF h.err # NoErr THEN Result(Nil, h.err, h.rest)
  ELSE LET r == ReadFull(h.rest, h.v) IN Result(newAtom(r.data), r.err, r.rest)

decBinary(s) ==
  LET h == buint32(s) IN
  IF h.err # NoErr THEN Result(Nil, h.err, h.rest)
  ELSE LET r == ReadFull(h.rest, lenOf(h.v)) IN Result(bytesRead(r, h.v), r.err, r.rest)

decString(s) ==
  LET h == buint16(s) IN
  IF h.err # NoErr THEN Result(Nil, h.err, h.rest)
  ELSE LET r == ReadFull(h.rest, h.v) IN
       Result([kind |-> "string", v |-> r.data], r.err, r.rest)

(***************************************************************************)
(* fmt.Sscanf(string(b), "%f", &f).  A text is a sequence of bytes, a      *)
(* position in it an index from 1; every byte that the scan accepts is     *)
(* ASCII.  A magnitude is the big-endian bytes of a natural number, without *)
(* leading zero bytes.                                                     *)
(***************************************************************************)
isDigit(c) == c >= 48 /\ c <= 57

\* lower(c) of strconv: c | ('x' - 'X')
lower(c) == IF (c \div 32) % 2 = 0 THEN c + 32 ELSE c

isHexDigit(c) == isDigit(c) \/ (lower(c) >= 97 /\ lower(c) <= 102)

sign == {43, 45}

decimalDigits == 48..57

hexadecimalDigits == 48..57 \cup 65..70 \cup 97..102

exponent == {101, 69, 112, 80}

\* the UTF-8 encodings of the spaces of unicode that take more than a byte
wideSpaces ==
  {<<194, 133>>, <<194, 160>>, <<225, 154, 128>>, <<226, 129, 159>>, <<227, 128, 128>>}
  \cup {<<226, 128, x>> : x \in 128..138 \cup {168, 169, 175}}

\* the bytes of the space at position i of b, 0 when there is none; the
\* newline is not among them
spaceWidth(b, i) ==
  IF b[i] \in {9, 11, 12, 13, 32} THEN 1
  ELSE LET m == {x \in wideSpaces : i + Len(x) - 1 <= Len(b) /\ SubSeq(b, i, i + Len(x) - 1) = x}
       IN IF m = {} THEN 0 ELSE Len(CHOOSE x \in m : TRUE)

\* s.SkipSpace() from position i: the position of the first rune that is not
\* a space, 0 when a newline comes first ("unexpected newline")
RECURSIVE SkipSpace(_, _)
SkipSpace(b, i) ==
  IF i > Len(b) THEN i
  ELSE IF b[i] = 10 THEN 0
  ELSE IF spaceWidth(b, i) = 0 THEN i
  ELSE SkipSpace(b, i + spaceWidth(b, i))

\* s.accept(ok) at position i
accept(b, i, ok) == i <= Len(b) /\ b[i] \in ok

\* for s.accept(ok) {}: the position after the bytes of ok from position i
acceptAll(b, i, ok) ==
  LET stop == {j \in i..Len(b) : b[j] \notin ok}
  IN IF stop = {} THEN Len(b) + 1 ELSE CHOOSE j \in stop : \A k \in stop : j <= k

\* s.accept(oks[1]) && s.accept(oks[2]) && ...: the bytes accepted
acceptSeq(b, i, oks) ==
  LET n == {k \in 0..Len(oks) : \A j \in 1..k : accept(b, i + j - 1, oks[j])}
  IN CHOOSE k \in n : \A j \in n : j <= k

\* floatToken: the exponent, when there is one
tokenExponent(b, i, hex) ==
  IF accept(b, i, IF hex THEN {112, 80} ELSE exponent)
  THEN acceptAll(b, IF accept(b, i + 1, sign) THEN i + 2 ELSE i + 1, decimalDigits \cup {95})
  ELSE i

\* floatToken: the digits, the point and the fraction
tokenDigits(b, i, hex) ==
  LET digits == (IF hex THEN hexadecimalDigits ELSE decimalDigits) \cup {95}
      point(j) == tokenExponent(b, IF accept(b, j, {46}) THEN acceptAll(b, j + 1, digits) ELSE j, hex)
  IN point(acceptAll(b, i, digits))

\* floatToken: "Inf", or the base prefix and the number
tokenInf(b, i) ==
  IF acceptSeq(b, i, <<{105, 73}, {110, 78}, {102, 70}>>) = 3 THEN i + 3
  ELSE LET number(j) == tokenDigits(b, j + acceptSeq(b, j, <<{48}, {120, 88}>>),
                                    acceptSeq(b, j, <<{48}, {120, 88}>>) = 2)
       IN number(i + acceptSeq(b, i, <<{105, 73}, {110, 78}, {102, 70}>>))

\* s.floatToken() from position i: the position after the token; what the
\* tests for "NaN" and "Inf" accepted stays in the token when they fail
floatToken(b, i) ==
  IF acceptSeq(b, i, <<{110, 78}, {97, 65}, {110, 78}>>) = 3 THEN i + 3
  ELSE LET signed(j) == tokenInf(b, IF accept(b, j, sign) THEN j + 1 ELSE j)
       IN signed(i + acceptSeq(b, i, <<{110, 78}, {97, 65}, {110, 78}>>))

\* a * k + c on a magnitude, k and c being less than 256
RECURSIVE mulAdd(_, _, _)
mulAdd(a, k, c) ==
  IF a = <<>> THEN (IF c = 0 THEN <<>> ELSE <<c>>)
  ELSE Append(mulAdd(Take(a, Len(a) - 1), k, (a[Len(a)] * k + c) \div 256),
              (a[Len(a)] * k + c) % 256)

\* the magnitude that the digits ds (as numbers) write in the given base
RECURSIVE fromDigits(_, _)
fromDigits(ds, base) ==
  IF ds = <<>> THEN <<>>
  ELSE mulAdd(fromDigits(Take(ds, Len(ds) - 1), base), base, ds[Len(ds)])

\* a * 10^n (the factors are taken half by half)
RECURSIVE mulPow10(_, _)
mulPow10(a, n) ==
  IF n = 0 \/ a = <<>> THEN a
  ELSE IF n = 1 THEN mulAdd(a, 10, 0)
  ELSE mulPow10(mulPow10(a, n \div 2), n - n \div 2)

\* a * 2^n
shl(a, n) == IF a = <<>> THEN a ELSE mulAdd(a, 2 ^ (n % 8), 0) \o Rep(0, n \div 8)

\* the bits of a magnitude
bitLen(a) ==
  IF a = <<>> THEN 0
  ELSE 8 * (Len(a) - 1) + (CHOOSE n \in 1..8 : 2 ^ (n - 1) <= a[1] /\ a[1] < 2 ^ n)

\* a >= b on magnitudes
geMag(a, b) == Len(a) > Len(b) \/ (Len(a) = Len(b) /\ (a = b \/ LexLess(b, a)))

\* a * 2^x >= b * 2^y, b not being zero
geScaled(a, x, b, y) ==
  IF bitLen(a) + x # bitLen(b) + y THEN bitLen(a) + x > bitLen(b) + y
  ELSE IF x >= y THEN geMag(shl(a, x - y), b)
  ELSE geMag(a, shl(b, y - x))

\* the value of the digits of an exponent: as in readFloat, digits after
\* the number has reached 10000 do not count
RECURSIVE expValue(_)
expValue(ds) ==
  IF ds = <<>> THEN 0
  ELSE LET e == expValue(Take(ds, Len(ds) - 1))
       IN IF e < 10000 THEN e * 10 + ds[Len(ds)] ELSE e

\* the digits among the bytes t, as numbers
digitsOf(t) ==
  LET d == SelectSeq(t, isHexDigit)
  IN [i \in 1..Len(d) |-> IF isDigit(d[i]) THEN d[i] - 48 ELSE lower(d[i]) - 87]

\* underscoreOK(s) of strconv: an underscore is between two digits, or
\* between the base prefix and a digit
underscoreOK(s) ==
  LET t == IF accept(s, 1, sign) THEN Tail(s) ELSE s
      pre == Len(t) >= 2 /\ t[1] = 48 /\ lower(t[2]) \in {98, 111, 120}
      hex == pre /\ lower(t[2]) = 120
      dig(i) == isDigit(t[i]) \/ (hex /\ isHexDigit(t[i]))
  IN \A i \in (IF pre THEN 3 ELSE 1)..Len(t) :
       t[i] = 95 =>
         /\ (pre /\ i = 3) \/ (i > (IF pre THEN 3 ELSE 1) /\ dig(i - 1))
         /\ i < Len(t) /\ dig(i + 1)

\* special(s) of strconv: "inf" and "infinity" with or without a sign, and
\* "nan", in any case of the letters; the bytes it takes, 0 when s does not
\* start with one of them
special(s) ==
  LET low == [i \in 1..Len(s) |-> lower(s[i])]
      body == IF accept(s, 1, sign) THEN Tail(low) ELSE low
      starts(x) == Len(body) >= Len(x) /\ Take(body, Len(x)) = x
  IN IF starts(<<105, 110, 102, 105, 110, 105, 116, 121>>) THEN Len(s) - Len(body) + 8
     ELSE IF starts(<<105, 110, 102>>) THEN Len(s) - Len(body) + 3
     ELSE IF Len(low) >= 3 /\ Take(low, 3) = <<110, 97, 110>> THEN 3
     ELSE 0

\* a float of a text: its magnitude is mant * 10^e10 * 2^e2, mant being
\* written by the digits ds in the given base
Float(ds, base, e10, e2) ==
  [ok |-> TRUE, inf |-> FALSE, nan |-> FALSE,
   digits |-> ds, base |-> base, e10 |-> e10, e2 |-> e2]

\* the digits ds without the zeros that lead them
significant(ds) ==
  LET nz == {i \in 1..Len(ds) : ds[i] # 0}
  IN IF nz = {} THEN <<>> ELSE SubSeq(ds, CHOOSE i \in nz : \A j \in nz : i <= j, Len(ds))

\* the scan stops with an error: the text is no float
NotFloat == [ok |-> FALSE, eof |-> FALSE]

\* the scan stops with io.EOF: the text has ended where the float is to start
EndOfText == [ok |-> FALSE, eof |-> TRUE]

\* readFloat(s) of strconv from the exponent at position i on, the mantissa
\* being the bytes from position m to i - 1
readExponent(s, m, i, hex) ==
  LET mant == SubSeq(s, m, i - 1)
      dot == {j \in 1..Len(mant) : mant[j] = 46}
      frac == IF dot = {} THEN 0
              ELSE Len(digitsOf(SubSeq(mant, (CHOOSE j \in dot : TRUE) + 1, Len(mant))))
      n == significant(digitsOf(mant))
      value(e) == IF hex THEN Float(n, 16, 0, e - 4 * frac) ELSE Float(n, 10, e - frac, 0)
      digits(j) ==
        IF ~accept(s, j, decimalDigits) THEN NotFloat
        ELSE IF acceptAll(s, j, decimalDigits \cup {95}) # Len(s) + 1 THEN NotFloat
        ELSE IF ~underscoreOK(s) THEN NotFloat
        ELSE value((IF accept(s, i + 1, {45}) THEN -1 ELSE 1)
                   * expValue(digitsOf(SubSeq(s, j, Len(s)))))
  IN IF digitsOf(mant) = <<>> THEN NotFloat
     ELSE IF i <= Len(s) /\ lower(s[i]) = (IF hex THEN 112 ELSE 101)
          THEN digits(IF accept(s, i + 1, sign) THEN i + 2 ELSE i + 1)
     ELSE IF hex \/ i # Len(s) + 1 \/ ~underscoreOK(s) THEN NotFloat
     ELSE value(0)

\* readFloat(s) of strconv, of a text that is to be read to its end: the
\* sign, the base prefix, the digits with at most one point, the exponent
readFloat(s) ==
  LET i == IF accept(s, 1, sign) THEN 2 ELSE 1
      hex == i + 2 <= Len(s) /\ s[i] = 48 /\ lower(s[i + 1]) = 120
      m == IF hex THEN i + 2 ELSE i
      digits == (IF hex THEN hexadecimalDigits ELSE decimalDigits) \cup {95}
      point(j) == readExponent(s, m, IF accept(s, j, {46}) THEN acceptAll(s, j + 1, digits) ELSE j, hex)
  IN point(acceptAll(s, m, digits))

\* (2^54 - 1) * 2^970, half-way between the largest float64 and 2^1024, as
\* c * 2^y and in decimal digits
Float64Limit ==
  [c |-> <<63, 255, 255, 255, 255, 255, 255>>, y |-> 970, digits |-> <<
    1, 7, 9, 7, 6, 9, 3, 1, 3, 4, 8, 6, 2, 3, 1, 5, 8, 0, 7, 9, 3, 7, 2, 8,
    9, 7, 1, 4, 0, 5, 3, 0, 3, 4, 1, 5, 0, 7, 9, 9, 3, 4, 1, 3, 2, 7, 1, 0,
    0, 3, 7, 8, 2, 6, 9, 3, 6, 1, 7, 3, 7, 7, 8, 9, 8, 0, 4, 4, 4, 9, 6, 8,
    2, 9, 2, 7, 6, 4, 7, 5, 0, 9, 4, 6, 6, 4, 9, 0, 1, 7, 9, 7, 7, 5, 8, 7,
    2, 0, 7, 0, 9, 6, 3, 3, 0, 2, 8, 6, 4, 1, 6, 6, 9, 2, 8, 8, 7, 9, 1, 0,
    9, 4, 6, 5, 5, 5, 5, 4, 7, 8, 5, 1, 9, 4, 0, 4, 0, 2, 6, 3, 0, 6, 5, 7,
    4, 8, 8, 6, 7, 1, 5, 0, 5, 8, 2, 0, 6, 8, 1, 9, 0, 8, 9, 0, 2, 0, 0, 0,
    7, 0, 8, 3, 8, 3, 6, 7, 6, 2, 7, 3, 8, 5, 4, 8, 4, 5, 8, 1, 7, 7, 1, 1,
    5, 3, 1, 7, 6, 4, 4, 7, 5, 7, 3, 0, 2, 7, 0, 0, 6, 9, 8, 5, 5, 5, 7, 1,
    3, 6, 6, 9, 5, 9, 6, 2, 2, 8, 4, 2, 9, 1, 4, 8, 1, 9, 8, 6, 0, 8, 3, 4,
    9, 3, 6, 4, 7, 5, 2, 9, 2, 7, 1, 9, 0, 7, 4, 1, 6, 8, 4, 4, 4, 3, 6, 5,
    5, 1, 0, 7, 0, 4, 3, 4, 2, 7, 1, 1, 5, 5, 9, 6, 9, 9, 5, 0, 8, 0, 9, 3,
    0, 4, 2, 8, 8, 0, 1, 7, 7, 9, 0, 4, 1, 7, 4, 4, 9, 7, 7, 9, 2>>]

\* (2^54 - 2^30 + 1) * 2^74, half-way between math.MaxFloat32 and the
\* float64 after it
Float32Limit ==
  [c |-> <<63, 255, 255, 192, 0, 0, 1>>, y |-> 74, digits |-> <<
    3, 4, 0, 2, 8, 2, 3, 4, 6, 6, 3, 8, 5, 2, 8, 8, 7, 8, 7, 0, 1, 1, 7, 0,
    1, 1, 4, 9, 6, 3, 0, 9, 7, 7, 8, 0, 2, 2, 4>>]

\* the float x, which is not zero, against a limit: 1 when it is larger, 0
\* when it is equal, -1 when it is smaller.  A decimal number is compared in
\* decimal digits; a number with a power of two is compared in binary, and
\* has no decimal exponent but the places of its fraction
compareLimit(x, lim) ==
  IF x.base = 10 /\ x.e2 = 0 THEN
    IF Len(x.digits) + x.e10 # Len(lim.digits)
    THEN (IF Len(x.digits) + x.e10 > Len(lim.digits) THEN 1 ELSE -1)
    ELSE LET against(a, b) == IF a = b THEN 0 ELSE IF LexLess(b, a) THEN 1 ELSE -1
         IN against(x.digits \o Rep(0, x.e10), lim.digits \o Rep(0, -x.e10))
  ELSE LET against(a, b) == IF ~geScaled(a, x.e2, b, lim.y) THEN -1
                           ELSE IF geScaled(b, lim.y, a, x.e2) THEN 0 ELSE 1
       IN against(fromDigits(x.digits, x.base), mulPow10(lim.c, -x.e10))

\* the float x rounds to a float64 beyond the largest
beyondFloat64(x) == x.digits # <<>> /\ compareLimit(x, Float64Limit) >= 0

\* strconv.ParseFloat(s, 64): what s is read as, unless it is no float or
\* out of range
ParseFloat(s) ==
  IF special(s) # 0 THEN
    IF special(s) # Len(s) THEN NotFloat
    ELSE [ok |-> TRUE, inf |-> lower(s[Len(s)]) # 110, nan |-> lower(s[Len(s)]) = 110]
  ELSE LET ranged(x) == IF x.ok /\ beyondFloat64(x) THEN NotFloat ELSE x
       IN ranged(readFloat(s))

\* the largest int, in decimal digits
maxIntDigits ==
  IF intBytes = 4 THEN <<2, 1, 4, 7, 4, 8, 3, 6, 4, 7>>
  ELSE <<9, 2, 2, 3, 3, 7, 2, 0, 3, 6, 8, 5, 4, 7, 7, 5, 8, 0, 7>>

\* strconv.Atoi(s) returns no error: s is digits after at most one sign,
\* and the number is an int
AtoiOk(s) ==
  LET ds == IF accept(s, 1, sign) THEN Tail(s) ELSE s
      n == fromDigits(digitsOf(ds), 10)
      max == fromDigits(maxIntDigits, 10)
  IN /\ ds # <<>>
     /\ \A i \in 1..Len(ds) : isDigit(ds[i])
     /\ geMag(IF accept(s, 1, {45}) THEN Inc(max) ELSE max, n)

\* the element of a set of one: a value that is worked out once is taken
\* from such a set
The(S) == CHOOSE x \in S : TRUE

\* the 7 bytes q with the bit i set, which was not
setBit(q, i) == [q EXCEPT ![7 - i \div 8] = @ + 2 ^ (i % 8)]

\* the largest k with a >= b * 2^k, a and b not being zero
log2(a, b) ==
  IF geScaled(a, 0, b, bitLen(a) - bitLen(b)) THEN bitLen(a) - bitLen(b)
  ELSE bitLen(a) - bitLen(b) - 1

\* the largest integer that is at most a / (10^p * 2^s), as 7 bytes: its
\* bits above the lowest `left` are those of q, the others are still to be
\* found
RECURSIVE quotient(_, _, _, _, _)
quotient(a, p, s, q, left) ==
  IF left = 0 THEN q
  ELSE IF geScaled(a, -s, mulPow10(Norm(setBit(q, left - 1)), p), 0)
       THEN quotient(a, p, s, setBit(q, left - 1), left - 1)
  ELSE quotient(a, p, s, q, left - 1)

\* a / (10^p * 2^s) to the nearest integer, a half going to the even one;
\* q is the integer below it
roundEven(a, p, s, q) ==
  IF \E half \in {mulPow10(mulAdd(q, 2, 1), p)} :
       /\ geScaled(a, 1 - s, half, 0)
       /\ \/ q # <<>> /\ q[Len(q)] % 2 = 1
          \/ ~geScaled(half, 0, a, 1 - s)
  THEN mulAdd(q, 1, 1)
  ELSE q

\* the float64 of a / 10^p, which is not zero, as n * 2^s: n has 53 bits
\* when the float64 is normal, and s is -1074 when it is not; k is the
\* binary exponent of a / 10^p
nearest(a, p, k, s) ==
  The({[n |-> roundEven(a, p, s, q), s |-> s] :
         q \in {Norm(quotient(a, p, s, Rep(0, 7), IF k + 1 > s THEN k + 1 - s ELSE 0))}})

nearestFloat64(a, p) ==
  The({nearest(a, p, k, IF k - 52 > -1074 THEN k - 52 ELSE -1074) :
         k \in {log2(a, mulPow10(<<1>>, p))}})

\* the largest int less n, n being less than 65536
maxIntLess(n) ==
  <<127>> \o Rep(255, intBytes - 3) \o <<(65535 - n) \div 256, (65535 - n) % 256>>

\* math.Ldexp(f, m) of the float64 f = n * 2^s, the text e writing the int
\* that is added.  The exponent exp of f is added to it in an int, where the
\* sum wraps around; a sum below -1075 gives zero, a sum above 1023 gives
\* an infinity.  m is the int as expValue takes it: a larger one is as far
\* beyond the two limits
ldexpOf(f, e, exp, m) ==
  IF f.n = <<>> THEN Float(<<>>, 10, 0, 0)
  ELSE IF ~accept(e, 1, {45}) /\ exp > 0
          /\ ~geMag(maxIntLess(exp), fromDigits(digitsOf(e), 10))
       THEN Float(<<>>, 10, 0, 0)
  ELSE IF accept(e, 1, {45}) /\ exp < 0
          /\ ~geMag(maxIntLess(-exp - 1), fromDigits(digitsOf(e), 10))
       THEN [ok |-> TRUE, inf |-> TRUE, nan |-> FALSE]
  ELSE IF exp + m < -1075 THEN Float(<<>>, 10, 0, 0)
  ELSE IF exp + m > 1023 THEN [ok |-> TRUE, inf |-> TRUE, nan |-> FALSE]
  ELSE Float(f.n, 256, 0, f.s + m)

Ldexp(f, e) ==
  The({ldexpOf(f, e, bitLen(f.n) - 1 + f.s, m) :
         m \in {(IF accept(e, 1, {45}) THEN -1 ELSE 1) * expValue(digitsOf(e))}})

\* s.convertFloat(str, 64): a text with a p and no x is a decimal number
\* and a power of two, which math.Ldexp brings together; any other text is
\* for strconv.ParseFloat
convertFloat(str) ==
  LET ps == {i \in 1..Len(str) : str[i] = 112}
      p == CHOOSE i \in ps : \A j \in ps : i <= j
      ldexp(f, e) ==
        IF ~f.ok \/ ~AtoiOk(e) THEN NotFloat
        ELSE IF f.inf \/ f.nan \/ f.digits = <<>> THEN f
        ELSE The({Ldexp(x, e) :
                    x \in {nearestFloat64(
                             mulPow10(fromDigits(f.digits, f.base), IF f.e10 > 0 THEN f.e10 ELSE 0),
                             IF f.e10 < 0 THEN -f.e10 ELSE 0)}})
  IN IF ps # {} /\ \A i \in 1..Len(str) : lower(str[i]) # 120
     THEN The({ldexp(f, Drop(str, p)) : f \in {ParseFloat(Take(str, p - 1))}})
     ELSE ParseFloat(str)

\* the float that Sscanf scans from the text b: the spaces are skipped and
\* the token is converted; what follows the token is left unread.  A text
\* that ends with the spaces has no float to scan (io.EOF); a newline among
\* them is an error
scanFloat(b) ==
  LET token(i) ==
        IF i = 0 THEN NotFloat
        ELSE IF i > Len(b) THEN EndOfText
        ELSE convertFloat(SubSeq(b, i, floatToken(b, i) - 1))
  IN token(SkipSpace(b, 1))

\* Sscanf returns no error
scansAsFloat(b) == scanFloat(b).ok

decFloat(s) ==
  LET r == ReadFull(s, 31) IN
  IF r.err # NoErr THEN Result(Nil, r.err, r.rest)
  ELSE The({IF f.ok THEN Result([kind |-> "float64", scanned |-> r.data], NoErr, r.rest)
            ELSE Result([kind |-> "float64", v |-> Rep(0, 8)],
                        IF f.eof THEN ErrEOF ELSE ErrSscanf, r.rest) :
              f \in {scanFloat(r.data)}})

decNewFloat(s) ==
  LET r == ReadFull(s, 8) IN
  IF r.err = NoErr THEN Result([kind |-> "float64", v |-> r.data], NoErr, r.rest)
  ELSE Result(Nil, r.err, r.rest)

decSmallInteger(s) ==
  LET r == ruint8(s) IN Result([kind |-> "int", v |-> LowBytes(<<r.v>>, 8)], r.err, r.rest)

\* binary.Read(d.r, be, &x) leaves x zero when the 4 bytes cannot be read
decInteger(s) ==
  LET r == ReadFull(s, 4)
      x == IF r.err = NoErr THEN r.data ELSE <<0, 0, 0, 0>>
  IN Result([kind |-> "int", v |-> SignExt(x, 8)], r.err, r.rest)

decSmallBig(s) ==
  LET h == ReadFull(s, 2) IN
  IF h.err # NoErr THEN Result(Nil, h.err, h.rest)
  ELSE readBigInt(h.rest, h.data[1], h.data[2])

decLargeBig(s) ==
  LET h == ReadFull(s, 5) IN
  IF h.err # NoErr THEN Result(Nil, h.err, h.rest)
  ELSE IF allocFails(Take(h.data, 4), 1) THEN Result(Nil, PanicMakeslice, h.rest)
  ELSE readBigInt(h.rest, lenOf(Take(h.data, 4)), h.data[5])

\* d.c.currentCache: no code of the package assigns it
currentCache == <<>>

isAtom(t) == t.kind = "atom"

RECURSIVE Decode(_), DecodeN(_, _), DecodeIgn(_, _)

\* n successive Decode calls, stopping at the first that fails; terms holds
\* what the calls returned, the failing one included (the calls are taken
\* half by half, which keeps their order)
DecodeN(s, n) ==
  IF n = 0 THEN [terms |-> <<>>, err |-> NoErr, rest |-> s]
  ELSE IF n = 1 THEN
    LET h == Decode(s) IN [terms |-> <<h.term>>, err |-> h.err, rest |-> h.rest]
  ELSE LET a == DecodeN(s, n \div 2) IN
       IF a.err # NoErr THEN a
       ELSE LET t == DecodeN(a.rest, n - n \div 2) IN
            [terms |-> a.terms \o t.terms, err |-> t.err, rest |-> t.rest]

\* n successive Decode calls whose errors are dropped (x, _ := d.Decode())
DecodeIgn(s, n) ==
  IF n = 0 THEN [terms |-> <<>>, err |-> NoErr, rest |-> s]
  ELSE LET h == Decode(s) IN
       IF h.err \in Aborts THEN [terms |-> <<>>, err |-> h.err, rest |-> h.rest]
       ELSE LET t == DecodeIgn(h.rest, n - 1) IN
            [terms |-> <<h.term>> \o t.terms, err |-> t.err, rest |-> t.rest]

\* a slice of n elements of which the first Len(ts) have been assigned
padNil(ts, n) == ts \o [i \in 1..(n - Len(ts)) |-> Nil]

\* the Decode calls of a loop of x rounds that stops at the first error: a
\* call that succeeds reads a byte or more, so that the call after as many
\* calls as the reader has bytes fails
rounds(x, s) == Min(lenOf(x), Len(s.bytes) + 1)

\* the elements of a slice made with x elements of which the first Len(ts)
\* have been assigned; of a slice of more than LongSlice elements the nil
\* elements after them are left out
elemsOf(ts, x) == IF lenOf(x) <= LongSlice THEN padNil(ts, lenOf(x)) ELSE ts

\* the Tuple made with x elements of which the first Len(ts) have been
\* assigned
tupleOf(ts, x) ==
  IF lenOf(x) <= LongSlice THEN [kind |-> "tuple", elems |-> elemsOf(ts, x)]
  ELSE [kind |-> "tuple", elems |-> elemsOf(ts, x), len |-> x]

\* the bytes held by the bufio.Reader after reads of less than its buffer
\* each that took c bytes in all, k bytes being held and src bytes being in
\* the source: the buffer is filled each time it has run empty
heldAfter(c, k, src) ==
  IF c <= k THEN k - c
  ELSE Min(src, defaultBufSize * ((c - k + defaultBufSize - 1) \div defaultBufSize)) - (c - k)

decPid(s) ==
  LET node == Decode(s) IN
  IF node.err # NoErr THEN Result(Nil, node.err, node.rest)
  ELSE LET r == ReadFull(node.rest, 9) IN
       IF r.err # NoErr THEN Result(Nil, r.err, r.rest)
       ELSE IF ~isAtom(node.term) THEN Result(Nil, PanicTypeAssert, r.rest)
       ELSE Result([kind |-> "pid", Node |-> node.term.v,
                    Id |-> SubSeq(r.data, 1, 4), Serial |-> SubSeq(r.data, 5, 8),
                    Creation |-> r.data[9]], NoErr, r.rest)

decNewRef(s) ==
  LET nid == ruint16(s) IN
  IF nid.err # NoErr THEN Result(Nil, nid.err, nid.rest)
  ELSE LET node == Decode(nid.rest) IN
  IF node.err # NoErr THEN Result(Nil, node.err, node.rest)
  ELSE LET c == ruint8(node.rest) IN
  IF c.err # NoErr THEN Result(Nil, c.err, c.rest)
  ELSE IF ~isAtom(node.term) THEN Result(Nil, PanicTypeAssert, c.rest)
  ELSE IF Len(c.rest.bytes) < 4 * nid.v THEN
         Result(Nil, IF Len(c.rest.bytes) % 4 = 0 THEN ErrEOF ELSE ErrUnexpectedEOF,
                NewReader(<<>>))
  ELSE Result([kind |-> "ref", Node |-> node.term.v, Creation |-> c.v,
               Id |-> [i \in 1..nid.v |-> SubSeq(c.rest.bytes, 4 * i - 3, 4 * i)]],
              NoErr,
              [bytes |-> Drop(c.rest.bytes, 4 * nid.v),
               buffered |-> heldAfter(4 * nid.v, c.rest.buffered,
                                      Len(c.rest.bytes) - c.rest.buffered)])

\* the creation byte is read into b, which is nil in this branch: nothing
\* is read and b[0] is out of range
decRef(s) ==
  LET node == Decode(s) IN
  IF node.err # NoErr THEN Result(Nil, node.err, node.rest)
  ELSE IF ~isAtom(node.term) THEN Result(Nil, PanicTypeAssert, node.rest)
  ELSE LET id == ruint32(node.rest) IN
       IF id.err # NoErr THEN Result(Nil, id.err, id.rest)
       ELSE Result(Nil, PanicIndex, id.rest)

decTuple(s, large) ==
  LET h == IF large THEN ruint32(s) ELSE ruint8(s)
      arity == IF large THEN h.v ELSE <<0, 0, 0, h.v>>
  IN
  IF h.err # NoErr THEN Result(Nil, h.err, h.rest)
  ELSE IF allocFails(arity, termSize) THEN Result(Nil, PanicMakeslice, h.rest)
  ELSE LET k == DecodeN(h.rest, rounds(arity, h.rest))
       IN IF k.err \in Aborts THEN Result(Nil, k.err, k.rest)
          ELSE Result(tupleOf(k.terms, arity), k.err, k.rest)

decList(s) ==
  LET h == ruint32(s) IN
  IF h.err # NoErr THEN Result(Nil, h.err, h.rest)
  ELSE IF allocFails(Inc(h.v), termSize) THEN Result(Nil, PanicMakeslice, h.rest)
  ELSE IF Inc(h.v) = <<0, 0, 0, 0>> THEN Result(Nil, PanicIndex, h.rest)
  ELSE LET n == lenOf(h.v)
           k == DecodeN(h.rest, rounds(Inc(h.v), h.rest))
       IN IF k.err # NoErr THEN Result(Nil, k.err, k.rest)
          ELSE IF k.terms[n + 1].kind = "list"
               THEN Result([kind |-> "list", elems |-> Take(k.terms, n)], NoErr, k.rest)
               ELSE Result([kind |-> "list", elems |-> k.terms], NoErr, k.rest)

decBitBinary(s) ==
  LET length == ruint32(s) IN
  IF length.err # NoErr THEN Result(Nil, length.err, length.rest)
  ELSE LET bits == ruint8(length.rest) IN
  IF bits.err # NoErr THEN Result(Nil, bits.err, bits.rest)
  ELSE IF allocFails(length.v, 1) THEN Result(Nil, PanicMakeslice, bits.rest)
  ELSE LET n == lenOf(length.v)
           r == ReadFull(bits.rest, n)
           sh == (8 - bits.v) % 256
       IN IF n = 0 THEN Result(Nil, PanicIndex, r.rest)
          ELSE IF Len(r.data) < n THEN Result(bytesRead(r, length.v), r.err, r.rest)
          ELSE Result([kind |-> "[]byte",
                       v |-> [r.data EXCEPT ![n] = IF sh >= 8 THEN 0 ELSE shr(r.data[n], sh)]],
                      r.err, r.rest)

decExport(s) ==
  LET m == Decode(s) IN
  IF m.err # NoErr THEN Result(Nil, m.err, m.rest)
  ELSE LET f == Decode(m.rest) IN
  IF f.err # NoErr THEN Result(Nil, f.err, f.rest)
  ELSE LET a == ruint8(f.rest) IN
  IF a.err # NoErr THEN Result(Nil, a.err, a.rest)
  ELSE IF ~isAtom(m.term) \/ ~isAtom(f.term) THEN Result(Nil, PanicTypeAssert, a.rest)
  ELSE Result([kind |-> "export", Module |-> m.term.v, Function |-> f.term.v,
               Arity |-> a.v], NoErr, a.rest)

\* the tail shared by NEW_FUN and FUN: the free variables, then the type
\* assertions on the four children decoded before them
funTail(s, arity, unique, index, free, m, oldi, oldu, pid) ==
  IF allocFails(free, termSize) THEN Result(Nil, PanicMakeslice, s)
  ELSE LET k == DecodeN(s, rounds(free, s))
       IN IF k.err \in Aborts THEN Result(Nil, k.err, k.rest)
          ELSE IF ~isAtom(m) \/ oldi.kind # "int" \/ oldu.kind # "int" \/ pid.kind # "pid"
               THEN Result(Nil, PanicTypeAssert, k.rest)
          ELSE Result([kind |-> "function", Arity |-> arity, Unique |-> unique,
                       Index |-> index, Free |-> free, Module |-> m.v,
                       OldIndex |-> SubSeq(oldi.v, 5, 8),
                       OldUnique |-> SubSeq(oldu.v, 5, 8),
                       Pid |-> pid, FreeVars |-> elemsOf(k.terms, free)],
                      k.err, k.rest)

decNewFun(s) ==
  LET size == ruint32(s)
      arity == ruint8(size.rest)
      unique == ReadFull(arity.rest, 16)
      index == ruint32(unique.rest)
      free == ruint32(index.rest)
      c == DecodeIgn(free.rest, 4)
  IN IF c.err # NoErr THEN Result(Nil, c.err, c.rest)
     ELSE funTail(c.rest, arity.v, unique.data, index.v, free.v,
                  c.terms[1], c.terms[2], c.terms[3], c.terms[4])

decFun(s) ==
  LET free == ruint32(s)
      c == DecodeIgn(free.rest, 4)
  IN IF c.err # NoErr THEN Result(Nil, c.err, c.rest)
     ELSE funTail(c.rest, 0, Rep(0, 16), <<0, 0, 0, 0>>, free.v,
                  c.terms[2], c.terms[3], c.terms[4], c.terms[1])

decPort(s) ==
  LET a == DecodeIgn(s, 1) IN
  IF a.err # NoErr THEN Result(Nil, a.err, a.rest)
  ELSE IF ~isAtom(a.terms[1]) THEN Result(Nil, PanicTypeAssert, a.rest)
  ELSE LET id == ruint32(a.rest)
           c == ruint8(id.rest)
       IN Result([kind |-> "port", Node |-> a.terms[1].v, Id |-> id.v,
                  Creation |-> c.v], c.err, c.rest)

decCacheRef(s) ==
  LET r == ReadFull(s, 1) IN
  IF r.err # NoErr THEN Result(Nil, r.err, r.rest)
  ELSE IF r.data[1] + 1 > Len(currentCache) THEN Result(Nil, PanicIndex, r.rest)
  ELSE IF currentCache[r.data[1] + 1] = Nil THEN Result(Nil, PanicNilDeref, r.rest)
  ELSE Result([kind |-> "atom", v |-> currentCache[r.data[1] + 1]], NoErr, r.rest)

\* Decode reads the next term from the stream s
Decode(s) ==
  LET t == ruint8(s)
      etype == t.v
      b == t.rest
  IN
  IF t.err # NoErr THEN Result(Nil, t.err, t.rest)
  ELSE
    CASE etype = EtVersion -> Decode(b)
      [] etype \in {ettAtom, ettAtomUTF8} -> decAtom(b, TRUE)
      [] etype \in {ettSmallAtom, ettSmallAtomUTF8} -> decAtom(b, FALSE)
      [] etype = ettBinary -> decBinary(b)
      [] etype = ettString -> decString(b)
      [] etype = ettFloat -> decFloat(b)
      [] etype = ettNewFloat -> decNewFloat(b)
      [] etype = ettSmallInteger -> decSmallInteger(b)
      [] etype = ettInteger -> decInteger(b)
      [] etype = ettSmallBig -> decSmallBig(b)
      [] etype = ettLargeBig -> decLargeBig(b)
      [] etype = ettNil -> Result([kind |-> "list", elems |-> <<>>], NoErr, b)
      [] etype = ettPid -> decPid(b)
      [] etype = ettNewRef -> decNewRef(b)
      [] etype = ettRef -> decRef(b)
      [] etype = ettSmallTuple -> decTuple(b, FALSE)
      [] etype = ettLargeTuple -> decTuple(b, TRUE)
      [] etype = ettList -> decList(b)
      [] etype = ettBitBinary -> decBitBinary(b)
      [] etype = ettExport -> decExport(b)
      [] etype = ettNewFun -> decNewFun(b)
      [] etype = ettFun -> decFun(b)
      [] etype = ettPort -> decPort(b)
      [] etype = ettCacheRef -> decCacheRef(b)
      [] OTHER -> Result(Nil, ErrUnknownTerm, b)

(***************************************************************************)
(* Typed decode bridge.  A call returns the bytes consumed (size), the     *)
(* error (err) with what it carries (arg) and the target after the call    *)
(* (val).  The parse functions return the parsed value in val.             *)
(***************************************************************************)
VersionError == "version error"

SyntaxError == "syntax error"

StructuralError == "structural error"

OverflowError == "overflow error"

TypeError == "type error"

\* a Set, SetInt, Interface ... on a reflect.Value obtained through an
\* unexported struct field
PanicUnexported == "panic: reflect: value obtained using unexported field"

Parsed(val, size) == [val |-> val, size |-> size, err |-> NoErr, arg |-> <<>>]

Failed(err, arg) == [val |-> Nil, size |-> 0, err |-> err, arg |-> arg]

\* the payload of a term that follows its tag with a length of lw bytes
lenPrefixed(b, lw) ==
  IF Len(b) < 1 + lw \/ Len(b) < 1 + lw + beUint(SubSeq(b, 2, 1 + lw))
  THEN Failed(StructuralError, <<"invalid length">>)
  ELSE LET n == beUint(SubSeq(b, 2, 1 + lw)) IN
       Parsed(SubSeq(b, 2 + lw, 1 + lw + n), 1 + lw + n)

\* the bytes that r parsed, as a value of kind k
asKind(r, k) ==
  IF r.err = NoErr THEN [r EXCEPT !.val = [kind |-> k, v |-> r.val]] ELSE r

parseAtom(b) ==
  IF b = <<>> THEN Failed(StructuralError, <<"invalid length">>)
  ELSE IF b[1] \in {ettAtom, ettAtomUTF8} THEN
    asKind(lenPrefixed(b, 2), "atom")
  ELSE IF b[1] \in {ettSmallAtom, ettSmallAtomUTF8} THEN
    asKind(lenPrefixed(b, 1), "atom")
  ELSE Failed(SyntaxError, <<"not an atom">>)

parseBool(b) ==
  LET r == parseAtom(b) IN
  IF r.err # NoErr THEN r
  ELSE IF r.val.v = bTrue THEN Parsed([kind |-> "bool", b |-> TRUE], r.size)
  ELSE IF r.val.v = bFalse THEN Parsed([kind |-> "bool", b |-> FALSE], r.size)
  ELSE Failed(SyntaxError, <<"not a boolean">>)

parseString(b) ==
  IF b = <<>> THEN Failed(StructuralError, <<"invalid length">>)
  ELSE IF b[1] = ettString THEN
    asKind(lenPrefixed(b, 2), "string")
  ELSE Failed(SyntaxError, <<"not a string">>)

parseBinary(b) ==
  IF b = <<>> THEN Failed(StructuralError, <<"invalid length">>)
  ELSE IF b[1] = ettBinary THEN lenPrefixed(b, 4)
  ELSE Failed(SyntaxError, <<"not a binary">>)

\* the big integer of a SMALL_BIG or LARGE_BIG term: a length of 1 or 4
\* bytes, the sign byte and the magnitude, least significant byte first
parseBigInt(b) ==
  IF b = <<>> THEN Failed(StructuralError, <<"invalid length">>)
  ELSE IF b[1] \in {ettSmallBig, ettLargeBig} THEN
    LET lw == IF b[1] = ettSmallBig THEN 1 ELSE 4 IN
    IF Len(b) < 2 + lw \/ Len(b) < 2 + lw + beUint(SubSeq(b, 2, 1 + lw))
    THEN Failed(StructuralError, <<"invalid length">>)
    ELSE LET n == beUint(SubSeq(b, 2, 1 + lw))
             m == bigSetBytes(reverse(SubSeq(b, 3 + lw, 2 + lw + n)))
             z == IF b[2 + lw] # 0 THEN bigNeg(m) ELSE m
         IN Parsed([kind |-> "*big.Int", neg |-> z.neg, abs |-> z.abs], 2 + lw + n)
  ELSE Failed(SyntaxError, <<"not a big integer">>)

\* the integer of a SMALL_INTEGER, INTEGER or big-integer term as an int64
parseInt64(b) ==
  IF b = <<>> THEN Failed(StructuralError, <<"invalid length">>)
  ELSE IF b[1] = ettSmallInteger THEN
    IF Len(b) >= 2 THEN Parsed(LowBytes(<<b[2]>>, 8), 2)
    ELSE Failed(StructuralError, <<"invalid length">>)
  ELSE IF b[1] = ettInteger THEN
    IF Len(b) >= 5 THEN Parsed(SignExt(SubSeq(b, 2, 5), 8), 5)
    ELSE Failed(StructuralError, <<"invalid length">>)
  ELSE IF b[1] \in {ettSmallBig, ettLargeBig} THEN
    LET r == parseBigInt(b) IN
    IF r.err # NoErr THEN r
    ELSE LET z == [neg |-> r.val.neg, abs |-> r.val.abs] IN
         IF bigNewInt(bigInt64(z)) = z THEN Parsed(bigInt64(z), r.size)
         ELSE [val |-> Nil, size |-> r.size, err |-> OverflowError,
               arg |-> <<z, "int64">>]
  ELSE Failed(SyntaxError, <<"not an integer">>)

\* the integer of a SMALL_INTEGER, INTEGER or big-integer term as a uint64
parseUint64(b) ==
  IF b = <<>> THEN Failed(StructuralError, <<"invalid length">>)
  ELSE IF b[1] \in {ettSmallInteger, ettInteger} THEN
    LET r == parseInt64(b) IN
    IF r.err = NoErr /\ IsNeg64(r.val)
    THEN [val |-> Nil, size |-> r.size, err |-> OverflowError,
          arg |-> <<bigNewInt(r.val), "uint64">>]
    ELSE r
  ELSE IF b[1] \in {ettSmallBig, ettLargeBig} THEN
    LET r == parseBigInt(b) IN
    IF r.err # NoErr THEN r
    ELSE LET z == [neg |-> r.val.neg, abs |-> r.val.abs] IN
         IF ~z.neg /\ Len(z.abs) <= 8 THEN Parsed(bigUint64(z), r.size)
         ELSE [val |-> Nil, size |-> r.size, err |-> OverflowError,
               arg |-> <<z, "uint64">>]
  ELSE Failed(SyntaxError, <<"not an integer">>)

\* the float of a NEW_FLOAT term, or of a FLOAT term as its scanned text
parseFloat64(b) ==
  IF b = <<>> THEN Failed(StructuralError, <<"invalid length">>)
  ELSE IF b[1] = ettNewFloat THEN
    IF Len(b) >= 9 THEN Parsed([kind |-> "float64", v |-> SubSeq(b, 2, 9)], 9)
    ELSE Failed(StructuralError, <<"invalid length">>)
  ELSE IF b[1] = ettFloat THEN
    IF Len(b) >= 32 /\ scansAsFloat(SubSeq(b, 2, 32))
    THEN Parsed([kind |-> "float64", scanned |-> SubSeq(b, 2, 32)], 32)
    ELSE Failed(StructuralError, <<"invalid length">>)
  ELSE Failed(SyntaxError, <<"not a float">>)

\* the bytes of the integer types, int and uint having intBytes bytes
intSize(k) ==
  CASE k \in {"int8", "uint8"} -> 1
    [] k \in {"int16", "uint16"} -> 2
    [] k \in {"int32", "uint32"} -> 4
    [] k \in {"int64", "uint64"} -> 8
    [] OTHER -> intBytes

\* v.OverflowInt(x): x does not survive the truncation to the type of v
OverflowInt(k, x) == SignExt(LowBytes(x, intSize(k)), 8) # x

\* v.OverflowUint(x)
OverflowUint(k, x) == LowBytes(LowBytes(x, intSize(k)), 8) # x

\* the float x rounds to a float64 beyond math.MaxFloat32
beyondFloat32(x) == x.digits # <<>> /\ compareLimit(x, Float32Limit) > 0

\* v.OverflowFloat(x) of a float32: x is finite and its magnitude exceeds
\* math.MaxFloat32 (0x47EFFFFFE0000000); x is held as the bytes of its bits
\* or as the text it was scanned from
OverflowFloat(x) ==
  IF "v" \in DOMAIN x THEN
    LET a == [x.v EXCEPT ![1] = x.v[1] % 128] IN
    /\ ~(a[1] = 127 /\ a[2] >= 240)
    /\ LexLess(<<71, 239, 255, 255, 224, 0, 0, 0>>, a)
  ELSE LET over(f) == f.ok /\ ~f.inf /\ ~f.nan /\ beyondFloat32(f)
       IN over(scanFloat(x.scanned))

\* the result of a call that parsed r and, unless it failed, stores new in
\* the target; a store through an unexported field panics
Store(r, ptr, new) ==
  IF r.err # NoErr THEN [size |-> r.size, err |-> r.err, arg |-> r.arg, val |-> ptr.elem]
  ELSE IF ptr.ro THEN [size |-> r.size, err |-> PanicUnexported, arg |-> <<>>, val |-> ptr.elem]
  ELSE [size |-> r.size, err |-> NoErr, arg |-> <<>>, val |-> new]

\* the result of a call that stores nothing
Return(size, ptr, err, arg) ==
  [size |-> size, err |-> err, arg |-> arg, val |-> ptr.elem]

decodePtr(b, ptr) ==
  LET v == ptr.elem IN
  IF ptr.ro THEN Return(0, ptr, PanicUnexported, <<>>)
  ELSE IF v.kind = "*big.Int" THEN
    LET big(r) == Store(r, ptr, r.val) IN big(parseBigInt(b))
  ELSE Return(0, ptr, TypeError, <<v.kind>>)

decodeSlice(b, ptr) ==
  LET v == ptr.elem IN
  IF ptr.ro THEN Return(0, ptr, PanicUnexported, <<>>)
  ELSE IF v.kind = "[]byte" THEN
    LET bytes(r) == Store(r, ptr, [kind |-> "[]byte", v |-> r.val]) IN bytes(parseBinary(b))
  ELSE Return(0, ptr, TypeError, <<v.kind>>)

\* v.Type().Elem().Kind() of an array (the arrays of no element that the
\* model holds are byte arrays)
elemKind(v) == IF v.elems = <<>> THEN "uint8" ELSE v.elems[1].kind

decodeArray(b, ptr) ==
  LET v == ptr.elem
      length == Len(v.elems)
  IN
  IF elemKind(v) = "uint8" THEN
    LET bytes(r) ==
          IF r.err # NoErr THEN Return(r.size, ptr, r.err, r.arg)
          ELSE IF length # Len(r.val)
          THEN Return(r.size, ptr, OverflowError, <<r.val, "array", length>>)
          ELSE IF length = 0 THEN Return(r.size, ptr, NoErr, <<>>)
          ELSE Store(r, ptr, [kind |-> "array",
                              elems |-> [i \in 1..length |-> u8Term(r.val[i])]])
    IN bytes(parseBinary(b))
  ELSE Return(0, ptr, TypeError, <<"array", length>>)

\* ptr.Elem() of a target whose kind is Struct, as its fields: the types Pid,
\* Port, Ref, Function and Export of the package are structs of exported
\* fields
structOf(v) ==
  CASE v.kind = "struct" -> v
    [] v.kind = "pid" ->
         [kind |-> "struct",
          fields |-> <<field(atomTerm(v.Node)), field(u32Term(v.Id)),
                       field(u32Term(v.Serial)), field(u8Term(v.Creation))>>]
    [] v.kind = "ref" ->
         [kind |-> "struct",
          fields |-> <<field(atomTerm(v.Node)), field(u8Term(v.Creation)),
                       field([kind |-> "slice",
                              elems |-> [i \in 1..Len(v.Id) |-> u32Term(v.Id[i])]])>>]
    [] OTHER -> [kind |-> "struct", fields |-> structFields(v)]

RECURSIVE decode(_, _), decodeFields(_, _, _, _)

\* v.Field(i).Addr(): the field of an unexported name is read-only (ro); a
\* field reached through an unexported field that is not embedded stays so
\* (sticky), while the fields of an unexported embedded struct do not
fieldAddr(ptr, f) ==
  [elem |-> f.val, ro |-> ptr.sticky \/ ~f.Exported,
   sticky |-> ptr.sticky \/ (~f.Exported /\ ~f.Anonymous)]

\* the loop of decodeStruct from field i on, size bytes being consumed
decodeFields(b, ptr, i, size) ==
  IF i > Len(ptr.elem.fields) THEN Return(size, ptr, NoErr, <<>>)
  ELSE LET f == ptr.elem.fields[i]
           step(r) ==
             LET v == [ptr.elem EXCEPT !.fields[i].val = r.val] IN
             IF r.err # NoErr
             THEN [size |-> size + r.size, err |-> r.err, arg |-> r.arg, val |-> v]
             ELSE decodeFields(b, [ptr EXCEPT !.elem = v], i + 1, size + r.size)
       IN step(decode(Drop(b, size), fieldAddr(ptr, f)))

decodeStruct(b, ptr) ==
  LET v == ptr.elem IN
  IF b = <<>> THEN Return(0, ptr, PanicIndex, <<>>)
  ELSE IF b[1] \in {ettSmallTuple, ettLargeTuple} THEN
    LET hdr == IF b[1] = ettSmallTuple THEN 2 ELSE 5 IN
    IF Len(b) < hdr THEN Return(0, ptr, StructuralError, <<"invalid tuple length">>)
    ELSE IF beUint(SubSeq(b, 2, hdr)) # Len(v.fields)
    THEN Return(hdr, ptr, StructuralError, <<"different number of fields">>)
    ELSE decodeFields(b, ptr, 1, hdr)
  ELSE Return(0, ptr, SyntaxError, <<"not a tuple">>)

decode(b, ptr) ==
  LET v == ptr.elem
      plain(r) == Store(r, ptr, r.val)
      int(r) ==
        IF r.err = NoErr /\ OverflowInt(v.kind, r.val)
        THEN Return(r.size, ptr, OverflowError, <<r.val, v.kind>>)
        ELSE Store(r, ptr, [kind |-> v.kind, v |-> r.val])
      uint(r) ==
        IF r.err = NoErr /\ OverflowUint(v.kind, r.val)
        THEN Return(r.size, ptr, OverflowError, <<r.val, v.kind>>)
        ELSE Store(r, ptr, [kind |-> v.kind, v |-> r.val])
      float32(r) ==
        IF r.err = NoErr /\ OverflowFloat(r.val)
        THEN Return(r.size, ptr, OverflowError, <<r.val, v.kind>>)
        ELSE Store(r, ptr, [kind |-> "float32", from |-> r.val])
  IN
  CASE v.kind = "bool" -> plain(parseBool(b))
    [] v.kind \in IntKinds -> int(parseInt64(b))
    [] v.kind \in {"uint", "uint8", "uint16", "uint32", "uint64"} -> uint(parseUint64(b))
    [] v.kind = "float32" -> float32(parseFloat64(b))
    [] v.kind = "float64" -> plain(parseFloat64(b))
    [] v.kind = "atom" -> plain(parseAtom(b))
    [] v.kind = "string" -> plain(parseString(b))
    [] v.kind \in {"struct", "pid", "port", "ref", "function", "export"} ->
         decodeStruct(b, [ptr EXCEPT !.elem = structOf(v)])
    [] v.kind \in {"ptr", "*big.Int"} -> decodePtr(b, ptr)
    [] v.kind \in {"slice", "list", "tuple", "[]byte"} -> decodeSlice(b, ptr)
    [] v.kind = "array" -> decodeArray(b, ptr)
    [] OTHER -> Return(0, ptr, TypeError, <<v.kind>>)

\* size++ for the version byte
plusVersion(r) == [r EXCEPT !.size = r.size + 1]

\* Decode of the bridge with a size that leaves the version byte out
DecodeIntoNoVersion(b, v) == decode(Tail(b), [elem |-> v, ro |-> FALSE, sticky |-> FALSE])

\* Decode(b, ptr) of the bridge, ptr pointing to the target v
DecodeInto(b, v) ==
  IF b = <<>> THEN [size |-> 0, err |-> PanicIndex, arg |-> <<>>, val |-> v]
  ELSE IF b[1] # EtVersion
  THEN [size |-> 0, err |-> VersionError, arg |-> <<b[1]>>, val |-> v]
  ELSE plusVersion(decode(Tail(b), [elem |-> v, ro |-> FALSE, sticky |-> FALSE]))

(***************************************************************************)
(* Inputs                                                                  *)
(***************************************************************************)
\* the longest run of encoder calls on one buffer
MaxFrames == 2

\* 8-byte integers around every byte boundary: a sign-extension prefix, one
\* leading byte and a uniform tail
Int64Inputs ==
  {Rep(p, 8 - k) \o <<a>> \o Rep(b, k - 1) :
     p \in {0, 255}, k \in 1..8, a \in {0, 1, 42, 127, 128, 255}, b \in {0, 255}}
  \cup {<<0, 0, 0, 0, 0, 0, 1, 44>>, <<1, 2, 3, 4, 5, 6, 7, 8>>,
        <<254, 253, 252, 251, 250, 249, 248, 248>>}

Uint64Inputs == Int64Inputs

BigLens == {1, 2, 3, 4, 5, 7, 8, 9, 16, 255, 256}

\* normalised big integers: no leading zero byte, zero is not negative
BigInputs ==
  {[neg |-> FALSE, abs |-> <<>>]}
  \cup {[neg |-> n, abs |-> <<a>> \o Rep(b, k - 1)] :
          n \in BOOLEAN, k \in BigLens, a \in {1, 127, 128, 255}, b \in {0, 255}}

AtomLens == {0, 1, 254, 255, 256, 257, 65535, 65536}

AtomInputs ==
  {Rep(c, n) : c \in {97, 255}, n \in AtomLens}
  \cup {bTrue, bFalse, <<111, 107>>, <<84, 114, 117, 101>>,
        <<116, 114, 117, 101, 0>>, <<102, 97, 108, 115>>, <<0>>,
        <<111, 109, 103, 64, 108, 111, 108>>}

StringInputs == AtomInputs

BinaryInputs == {Rep(c, n) : c \in {0, 123, 231}, n \in {0, 1, 255, 256, 65535, 65536}}

\* math.Float64bits of 0, 1, -12345.6789, the largest float, the smallest
\* denormal, +Inf and a NaN
FloatInputs ==
  {Rep(0, 8), <<63, 240, 0, 0, 0, 0, 0, 0>>, <<192, 200, 28, 214, 230, 49, 248, 161>>,
   <<127, 239, 255, 255, 255, 255, 255, 255>>, <<0, 0, 0, 0, 0, 0, 0, 1>>,
   <<127, 240, 0, 0, 0, 0, 0, 0>>, <<127, 248, 0, 0, 0, 0, 0, 1>>}

Uint32Inputs ==
  {<<0, 0, 0, 0>>, <<0, 0, 0, 38>>, <<0, 0, 1, 0>>, <<0, 0, 255, 255>>,
   <<0, 1, 0, 0>>, <<0, 1, 0, 38>>, <<1, 2, 3, 4>>, <<255, 255, 255, 255>>}

NodeInputs ==
  {<<111, 109, 103, 64, 108, 111, 108>>, <<>>, Rep(97, 256), Rep(97, 65536),
   bTrue, bFalse}

PidInputs ==
  {[kind |-> "pid", Node |-> n, Id |-> i, Serial |-> s, Creation |-> c] :
     n \in NodeInputs, i \in Uint32Inputs, s \in Uint32Inputs, c \in {0, 3, 255}}

RefInputs ==
  {[kind |-> "ref", Node |-> n, Creation |-> c, Id |-> ids] :
     n \in NodeInputs, c \in {0, 255},
     ids \in {<<>>, <<<<0, 0, 0, 7>>>>, <<<<1, 2, 3, 4>>, <<255, 255, 255, 255>>>>}}

intT(n) == [kind |-> "int", v |-> I64(n)]

stringT(b) == [kind |-> "string", v |-> b]

tupleT(ts) == [kind |-> "tuple", elems |-> ts]

sliceT(ts) == [kind |-> "slice", elems |-> ts]

ptrT(v) == [kind |-> "ptr", elem |-> v]

\* the value of TestWriteTerm: a struct with an embedded Atom, a string, an
\* int, a nested struct (a slice and a float) and a byte
s1 ==
  [kind |-> "struct",
   fields |-> <<field(sliceT(<<intT(256), stringT(<<49>>),
                               [kind |-> "float64", v |-> <<64, 42, 0, 0, 0, 0, 0, 0>>]>>)),
                field([kind |-> "float64", v |-> <<64, 42, 66, 143, 92, 40, 245, 195>>])>>]

s2 ==
  [kind |-> "struct",
   fields |-> <<[Anonymous |-> TRUE, Exported |-> TRUE, val |-> atomTerm(<<108, 111, 108>>)],
                field(stringT(<<111, 109, 103>>)), field(intT(13666)), field(s1),
                field(u8Term(1))>>]

\* a struct with an unexported field between two exported ones
s3 ==
  [kind |-> "struct",
   fields |-> <<field(intT(1)),
                [Anonymous |-> FALSE, Exported |-> FALSE, val |-> intT(2)],
                field(atomTerm(<<111, 107>>))>>]

\* one value of every supported kind
Pointees ==
  {[kind |-> "bool", b |-> TRUE], [kind |-> "bool", b |-> FALSE],
   intT(42), intT(300), [kind |-> "int8", v |-> Neg2c(I64(1))],
   [kind |-> "int64", v |-> <<127, 255, 255, 255, 255, 255, 255, 255>>],
   u8Term(1), [kind |-> "uint64", v |-> Rep(255, 8)],
   [kind |-> "*big.Int", neg |-> TRUE, abs |-> <<1>> \o Rep(0, 8)],
   stringT(<<111, 109, 103>>), stringT(<<>>),
   [kind |-> "[]byte", v |-> <<1, 2, 3>>],
   [kind |-> "float64", v |-> <<63, 240, 0, 0, 0, 0, 0, 0>>],
   [kind |-> "float32", v |-> <<65, 82, 20, 123>>],
   [kind |-> "float32", v |-> <<0, 64, 0, 1>>],
   atomTerm(<<111, 107>>), atomTerm(bTrue),
   [kind |-> "pid", Node |-> <<110, 64, 104>>, Id |-> <<0, 0, 0, 38>>,
    Serial |-> <<0, 0, 0, 1>>, Creation |-> 3],
   [kind |-> "ref", Node |-> <<110, 64, 104>>, Creation |-> 1, Id |-> <<<<0, 0, 0, 7>>>>],
   tupleT(<<>>), tupleT(<<atomTerm(<<111, 107>>), intT(1)>>),
   tupleT([i \in 1..256 |-> intT(0)]),
   sliceT(<<>>), sliceT(<<intT(1), intT(2)>>),
   [kind |-> "list", elems |-> <<intT(1), stringT(<<49>>)>>],
   [kind |-> "array", elems |-> <<u8Term(7), u8Term(8)>>],
   s1, s2, s3, [kind |-> "struct", fields |-> <<>>]}

\* values that fail to encode
BadValues ==
  {[kind |-> "map"], atomTerm(Rep(97, 65536)),
   tupleT(<<intT(1), atomTerm(Rep(97, 65536)), intT(2)>>),
   sliceT(<<stringT(Rep(97, 65536))>>)}

\* structs of 255 and of 256 exported fields, with an unexported and an
\* embedded field among them, and a struct whose second field cannot be
\* encoded
StructInputs ==
  {[kind |-> "struct",
    fields |-> [i \in 1..(n + 2) |->
                  IF i = 2 THEN [Anonymous |-> FALSE, Exported |-> FALSE, val |-> intT(7)]
                  ELSE IF i = 5 THEN [Anonymous |-> TRUE, Exported |-> TRUE,
                                      val |-> atomTerm(<<111, 107>>)]
                  ELSE field(u8Term(i % 256))]] : n \in {255, 256}}
  \cup {[kind |-> "struct",
         fields |-> <<field(intT(1)), field([kind |-> "map"]), field(intT(2))>>]}


\* the values a run of Encode calls draws from
StreamValues ==
  {[kind |-> "bool", b |-> TRUE], intT(42),
   [kind |-> "int64", v |-> <<128, 0, 0, 0, 0, 0, 0, 0>>],
   [kind |-> "uint64", v |-> Rep(255, 8)],
   atomTerm(<<111, 107>>),
   [kind |-> "[]byte", v |-> <<131, 106>>],
   tupleT(<<atomTerm(<<111, 107>>), intT(1)>>),
   [kind |-> "pid", Node |-> <<110, 64, 104>>, Id |-> <<0, 0, 0, 38>>,
    Serial |-> <<0, 0, 0, 1>>, Creation |-> 3],
   [kind |-> "ref", Node |-> <<110, 64, 104>>, Creation |-> 1, Id |-> <<<<0, 0, 0, 7>>>>],
   s2, ptrT(intT(42)),
   [kind |-> "map"], tupleT(<<intT(1), [kind |-> "map"]>>),
   [kind |-> "pid", Node |-> bTrue, Id |-> <<0, 0, 0, 38>>,
    Serial |-> <<0, 0, 0, 1>>, Creation |-> 3],
   tupleT(<<[kind |-> "ref", Node |-> bFalse, Creation |-> 1, Id |-> <<<<0, 0, 0, 7>>>>]>>)}

\* the wire form of a uint32 length n
u32(n) == <<byte(shr(n, 24)), byte(shr(n, 16)), byte(shr(n, 8)), byte(n)>>

\* encoded terms used as the elements and the tail of a LIST on the wire
ElemWires == {<<ettSmallInteger, 1>>, <<ettSmallAtom, 2, 111, 107>>, <<ettNil>>}

TailWires ==
  {<<ettNil>>, <<ettSmallInteger, 2>>, <<ettSmallAtom, 2, 111, 107>>,
   <<ettString, 0, 0>>, <<ettSmallTuple, 0>>, <<ettBinary, 0, 0, 0, 0>>,
   <<ettList, 0, 0, 0, 1, ettSmallInteger, 2, ettNil>>,
   <<ettList, 0, 0, 0, 1, ettSmallInteger, 2, ettSmallInteger, 3>>}

\* LIST terms on the wire, as [elems, tail]
ListInputs ==
  {[elems |-> es, tail |-> t] :
     es \in {<<>>} \cup {<<e>> : e \in ElemWires}
            \cup {<<e1, e2>> : e1 \in ElemWires, e2 \in ElemWires},
     t \in TailWires}

listWire(l) == <<ettList>> \o u32(Len(l.elems)) \o Flatten(l.elems) \o l.tail

\* the zero value of the type of v
RECURSIVE Zero(_)
Zero(v) ==
  CASE v.kind = "bool" -> [kind |-> "bool", b |-> FALSE]
    [] v.kind \in IntKinds \cup UintKinds -> [kind |-> v.kind, v |-> Rep(0, 8)]
    [] v.kind \in {"atom", "string", "[]byte"} -> [kind |-> v.kind, v |-> <<>>]
    [] v.kind = "float64" -> [kind |-> "float64", v |-> Rep(0, 8)]
    [] v.kind = "float32" -> [kind |-> "float32", v |-> Rep(0, 4)]
    [] v.kind = "*big.Int" -> [kind |-> "*big.Int", neg |-> FALSE, abs |-> <<>>]
    [] v.kind = "array" ->
         [kind |-> "array", elems |-> [i \in 1..Len(v.elems) |-> Zero(v.elems[i])]]
    [] v.kind \in {"slice", "list", "tuple"} -> [kind |-> v.kind, elems |-> <<>>]
    [] v.kind = "struct" ->
         [kind |-> "struct",
          fields |-> [i \in 1..Len(v.fields) |->
                        [v.fields[i] EXCEPT !.val = Zero(v.fields[i].val)]]]
    [] OTHER -> v

\* struct values whose fields the bridge can decode: all fields exported;
\* an unexported field in the middle; an embedded Atom first; a nested
\* struct and a byte array
t1 ==
  [kind |-> "struct",
   fields |-> <<field([kind |-> "int8", v |-> I64(7)]), field(atomTerm(<<111, 107>>)),
                field([kind |-> "uint16", v |-> I64(300)])>>]

t2 ==
  [kind |-> "struct",
   fields |-> <<[Anonymous |-> TRUE, Exported |-> TRUE, val |-> atomTerm(<<108, 111, 108>>)],
                field(intT(13666))>>]

t4 ==
  [kind |-> "struct",
   fields |-> <<field([kind |-> "bool", b |-> TRUE]),
                field([kind |-> "struct",
                       fields |-> <<field(intT(1)), field(stringT(<<111, 109, 103>>))>>]),
                field([kind |-> "[]byte", v |-> <<1, 2>>])>>]

\* struct{ inner } and struct{ in inner } with type inner struct{ X int }:
\* an unexported struct, embedded and as a named field
inner == [kind |-> "struct", fields |-> <<field(intT(0))>>]

t5 ==
  [kind |-> "struct",
   fields |-> <<[Anonymous |-> TRUE, Exported |-> FALSE, val |-> inner]>>]

t6 ==
  [kind |-> "struct",
   fields |-> <<[Anonymous |-> FALSE, Exported |-> FALSE, val |-> inner]>>]

TypedValues ==
  {t1, t2, s3, t4, [kind |-> "struct", fields |-> <<>>],
   intT(300), [kind |-> "int8", v |-> Neg2c(I64(1))],
   [kind |-> "uint64", v |-> Rep(255, 8)], [kind |-> "bool", b |-> TRUE],
   atomTerm(bTrue), stringT(<<111, 109, 103>>), [kind |-> "[]byte", v |-> <<1, 2, 3>>],
   [kind |-> "*big.Int", neg |-> TRUE, abs |-> <<1>> \o Rep(0, 8)],
   [kind |-> "float64", v |-> <<63, 240, 0, 0, 0, 0, 0, 0>>]}

\* targets: the zero values of the typed values and of the other integer
\* types, two byte arrays, values of types the bridge does not decode, and
\* the zero values of Port, Export, Pid, Ref and Function
TypedTargets ==
  {Zero(v) : v \in TypedValues}
  \cup {[kind |-> k, v |-> Rep(0, 8)] : k \in IntKinds \cup UintKinds}
  \cup {[kind |-> "array", elems |-> <<u8Term(7), u8Term(8)>>],
        [kind |-> "array", elems |-> <<>>],
        [kind |-> "array", elems |-> <<intT(1)>>],
        [kind |-> "float32", v |-> Rep(0, 4)],
        [kind |-> "map"], sliceT(<<>>), ptrT(intT(0)), t5, t6}
  \cup {[kind |-> "port", Node |-> <<>>, Id |-> Rep(0, 4), Creation |-> 0],
        [kind |-> "export", Module |-> <<>>, Function |-> <<>>, Arity |-> 0],
        [kind |-> "pid", Node |-> <<>>, Id |-> Rep(0, 4), Serial |-> Rep(0, 4),
         Creation |-> 0],
        [kind |-> "ref", Node |-> <<>>, Creation |-> 0, Id |-> <<>>],
        [kind |-> "function", Arity |-> 0, Unique |-> Rep(0, 16), Index |-> Rep(0, 4),
         Free |-> Rep(0, 4), Module |-> <<>>, OldIndex |-> Rep(0, 4),
         OldUnique |-> Rep(0, 4),
         Pid |-> [kind |-> "pid", Node |-> <<>>, Id |-> Rep(0, 4), Serial |-> Rep(0, 4),
                  Creation |-> 0],
         FreeVars |-> <<>>]}

\* a FLOAT term: the text in 31 bytes, filled up with zero bytes
floatWire(text) == <<ettFloat>> \o text \o Rep(0, 31 - Len(text))

\* FLOAT terms of "1.5", " 1e38", "3.5e38", "1e39", "0x1p128", "1p127",
\* "-inf", "NaN", "1e999", "1e", of a text after a newline, of spaces only,
\* and of "2p2147483647", "0.5p-2147483648" and "2p9223372036854775807",
\* where the exponent of math.Ldexp wraps around in an int of 4 or 8 bytes
FloatWires ==
  {floatWire(t) :
     t \in {<<49, 46, 53>>, <<32, 49, 101, 51, 56>>, <<51, 46, 53, 101, 51, 56>>,
            <<49, 101, 51, 57>>, <<48, 120, 49, 112, 49, 50, 56>>,
            <<49, 112, 49, 50, 55>>, <<45, 105, 110, 102>>, <<78, 97, 78>>,
            <<49, 101, 57, 57, 57>>, <<49, 101>>, <<10, 49>>, Rep(32, 31),
            <<50, 112, 50, 49, 52, 55, 52, 56, 51, 54, 52, 55>>,
            <<48, 46, 53, 112, 45, 50, 49, 52, 55, 52, 56, 51, 54, 52, 56>>,
            <<50, 112, 57, 50, 50, 51, 51, 55, 50, 48, 51, 54, 56, 53, 52, 55, 55, 53, 56, 48, 55>>}}

\* integer terms around the bounds of the integer types
IntWires ==
  {<<ettSmallInteger, a>> : a \in {0, 1, 127, 128, 255}}
  \cup {<<ettInteger>> \o x :
          x \in {<<128, 0, 0, 0>>, <<255, 255, 255, 255>>, <<255, 255, 255, 128>>,
                 <<255, 255, 255, 127>>, <<0, 0, 1, 0>>, <<0, 0, 127, 255>>,
                 <<0, 0, 128, 0>>, <<255, 255, 128, 0>>, <<255, 255, 127, 255>>,
                 <<0, 1, 0, 0>>, <<127, 255, 255, 255>>}}
  \cup {<<ettSmallBig, Len(m), s>> \o m :
          s \in {0, 1},
          m \in {<<>>, <<0, 0, 0, 128>>, <<1, 0, 0, 128>>, <<255, 255, 255, 255>>,
                 <<0, 0, 0, 0, 1>>, <<255, 255, 255, 255, 255, 255, 255, 127>>,
                 <<0, 0, 0, 0, 0, 0, 0, 128>>, <<1, 0, 0, 0, 0, 0, 0, 128>>,
                 Rep(255, 8), <<0, 0, 0, 0, 0, 0, 0, 0, 1>>}}
  \cup {<<ettLargeBig, 0, 0, 0, 1, 0, 200>>}

\* terms of the other kinds, whole and cut short
TypedWires ==
  IntWires \cup FloatWires
  \cup {<<ettBinary, 0, 0, 0, Len(x)>> \o x : x \in {<<>>, <<9>>, <<1, 2>>, <<1, 2, 3>>}}
  \cup {<<ettSmallAtom, 2, 111, 107>>, <<ettSmallAtom, 4>> \o bTrue,
        <<ettAtom, 0, 5>> \o bFalse, <<ettString, 0, 3, 111, 109, 103>>,
        <<ettNewFloat, 63, 240, 0, 0, 0, 0, 0, 0>>, <<ettNil>>,
        <<ettSmallTuple, 0>>, <<ettLargeTuple, 0, 0, 0, 0>>,
        <<ettSmallTuple, 3, ettSmallInteger, 7, ettSmallAtom, 2, 111, 107, ettInteger, 0, 0, 1, 44>>,
        <<ettLargeTuple, 0, 0, 0, 3, ettSmallInteger, 7, ettSmallAtom, 2, 111, 107,
          ettSmallInteger, 9>>,
        <<ettSmallTuple, 3, ettSmallInteger, 7, ettSmallInteger, 8, ettSmallInteger, 9>>,
        <<ettSmallTuple, 3, ettInteger, 0, 0, 1, 44, ettSmallAtom, 2, 111, 107,
          ettSmallInteger, 9>>,
        <<ettSmallTuple, 3, ettSmallInteger, 7, ettSmallAtom, 2, 111, 107>>,
        <<ettSmallTuple, 3, ettSmallInteger, 1, ettSmallInteger, 2, ettSmallAtom, 2, 111, 107>>,
        <<ettSmallTuple, 2, ettSmallAtom, 3, 108, 111, 108, ettSmallInteger, 5>>,
        <<ettSmallTuple, 4, ettSmallInteger, 7, ettSmallAtom, 2, 111, 107,
          ettSmallInteger, 9, ettSmallInteger, 1>>,
        <<ettSmallTuple, 1, ettSmallTuple, 1, ettSmallInteger, 5>>,
        <<ettSmallTuple, 3, ettSmallAtom, 1, 110, ettSmallInteger, 7, ettSmallInteger, 1>>,
        <<ettSmallTuple, 3, ettSmallAtom, 1, 109, ettSmallAtom, 1, 102, ettSmallInteger, 2>>,
        <<ettSmallTuple, 4, ettSmallAtom, 1, 110, ettSmallInteger, 38, ettSmallInteger, 1,
          ettSmallInteger, 3>>,
        <<ettSmallTuple, 3, ettSmallAtom, 1, 110, ettSmallInteger, 1, ettNil>>,
        <<ettSmallTuple, 9, ettSmallInteger, 1, ettBinary, 0, 0, 0, 16>> \o Rep(9, 16)
          \o <<ettSmallInteger, 2, ettSmallInteger, 0, ettSmallAtom, 1, 109,
               ettSmallInteger, 3, ettSmallInteger, 4,
               ettSmallTuple, 4, ettSmallAtom, 1, 110, ettSmallInteger, 38,
               ettSmallInteger, 1, ettSmallInteger, 3, ettNil>>,
        <<ettSmallTuple>>, <<ettLargeTuple, 0, 0, 0>>, <<ettLargeTuple>>,
        <<ettInteger, 0, 0>>, <<ettSmallInteger>>, <<ettBinary, 0, 0, 0, 2, 1>>, <<>>}

\* the slices handed to Decode: framed terms, slices that do not start
\* with the version byte, and framed terms one after the other
TypedSlices ==
  {<<EtVersion>> \o x : x \in TypedWires}
  \cup {<<>>, <<130, ettSmallInteger, 1>>, <<ettSmallInteger, 1>>, <<0>>,
        <<ettSmallTuple, 3, ettSmallInteger, 7, ettSmallAtom, 2, 111, 107, ettSmallInteger, 9>>}
  \cup {<<EtVersion>> \o x \o <<EtVersion>> \o y :
          x \in {<<ettSmallInteger, 7>>, <<ettInteger, 128, 0, 0, 0>>,
                 <<ettSmallTuple, 3, ettSmallInteger, 7, ettSmallAtom, 2, 111, 107,
                   ettInteger, 0, 0, 1, 44>>},
          y \in {<<ettSmallAtom, 2, 111, 107>>, <<ettSmallInteger, 9, EtVersion, ettNil>>,
                 <<ettSmallTuple, 2, ettSmallAtom, 3, 108, 111, 108, ettSmallInteger, 5>>}}

\* terms on the wire with structural children: a pid, a port, a legacy
\* reference, an export and the two kinds of function
PidWire == <<ettPid, ettSmallAtom, 1, 110, 0, 0, 0, 38, 0, 0, 0, 1, 3>>

PortWire == <<ettPort, ettSmallAtom, 1, 110, 0, 0, 0, 7, 1>>

RefWire == <<ettRef, ettSmallAtom, 1, 110, 0, 0, 0, 7, 1>>

ExportWire == <<ettExport, ettSmallAtom, 1, 109, ettSmallAtom, 1, 102, 2>>

\* NEW_FUN: size, arity, unique, index, free, then module, old index, old
\* unique, pid and no free variables
NewFunWire ==
  <<ettNewFun, 0, 0, 0, 0, 1>> \o Rep(9, 16) \o <<0, 0, 0, 2, 0, 0, 0, 0>>
    \o <<ettSmallAtom, 1, 109, ettSmallInteger, 3, ettSmallInteger, 4>> \o PidWire

\* FUN: free, then pid, module, index, unique and no free variables
FunWire ==
  <<ettFun, 0, 0, 0, 0>> \o PidWire
    \o <<ettSmallAtom, 1, 109, ettSmallInteger, 3, ettSmallInteger, 4>>

\* the same terms with a child that is not of the kind its slot asks for
\* (an integer, or the atom true or false), missing or cut short
BadChildWires ==
  {<<ettPid, ettSmallAtom, 4>> \o bTrue \o <<0, 0, 0, 38, 0, 0, 0, 1, 3>>,
   <<ettPid, ettSmallInteger, 1, 0, 0, 0, 38, 0, 0, 0, 1, 3>>,
   <<ettPid, ettSmallAtom, 1, 110, 0, 0, 0, 38>>,
   <<ettPort, ettSmallAtom, 5>> \o bFalse \o <<0, 0, 0, 7, 1>>,
   <<ettPort, ettSmallInteger, 1, 0, 0, 0, 7, 1>>,
   <<ettRef, ettSmallInteger, 1, 0, 0, 0, 7, 1>>,
   <<ettRef, ettSmallAtom, 1, 110, 0, 0>>,
   <<ettNewRef, 0, 1, ettSmallAtom, 4>> \o bTrue \o <<1, 0, 0, 0, 7>>,
   <<ettExport, ettSmallInteger, 1, ettSmallAtom, 1, 102, 2>>,
   <<ettExport, ettSmallAtom, 1, 109, ettSmallAtom, 4>> \o bTrue \o <<2>>,
   <<ettNewFun, 0, 0, 0, 0, 1>> \o Rep(9, 16) \o <<0, 0, 0, 2, 0, 0, 0, 0>>
     \o <<ettSmallInteger, 1, ettSmallInteger, 3, ettSmallInteger, 4>> \o PidWire,
   <<ettNewFun, 0, 0, 0, 0, 1>> \o Rep(9, 16) \o <<0, 0, 0, 2, 0, 0, 0, 0>>
     \o <<ettSmallAtom, 1, 109, ettSmallInteger, 3>>,
   <<ettNewFun, 0, 0, 0, 0, 1>> \o Rep(9, 16) \o <<0, 0, 0, 2, 0, 0, 0, 0>>
     \o <<ettSmallAtom, 1, 109, ettSmallAtom, 1, 120, ettSmallInteger, 4>> \o PidWire,
   <<ettFun, 0, 0, 0, 0, ettSmallInteger, 1,
     ettSmallAtom, 1, 109, ettSmallInteger, 3, ettSmallInteger, 4>>,
   <<ettFun, 0, 0, 0, 0>> \o PidWire \o <<ettSmallAtom, 1, 109, ettSmallInteger>>}

\* terms cut short, terms of an unknown tag, and tuples and lists whose
\* second child is one of these
BrokenWires ==
  {<<ettSmallInteger>>, <<ettInteger, 0, 1>>, <<ettInteger>>, <<1>>,
   <<ettFloat, 49, 46, 53>>, <<ettSmallAtom, 3, 111>>, <<ettString, 0, 3, 111>>,
   <<ettSmallTuple, 2, ettSmallInteger, 5>>,
   <<ettSmallTuple, 2, ettSmallInteger, 5, 1>>,
   <<ettSmallTuple, 2, ettSmallInteger, 5, ettSmallInteger>>,
   <<ettLargeTuple, 0, 0, 0, 2, ettSmallInteger, 5, ettInteger, 0>>,
   <<ettSmallTuple, 1, ettSmallTuple, 2, ettSmallAtom, 2, 111, 107>>,
   <<ettList, 0, 0, 0, 2, ettSmallInteger, 5, 1>>,
   <<ettList, 0, 0, 0, 1, ettSmallInteger, 5>>}

\* terms whose length field asks for more than the bytes that follow, up to
\* the lengths that no slice has where int is 32 bits wide
LongWires ==
  {<<ettBinary, 0, 0, 0, 5, 1>>, <<ettBinary, 255, 255>>, <<ettBinary, 128, 0, 0, 0>>,
   <<ettBinary, 0, 2, 0, 1, 7>>, <<ettBitBinary, 128, 0, 0, 0, 3>>,
   <<ettBitBinary, 0, 0, 0, 2, 3, 7>>, <<ettLargeBig, 128, 0, 0, 0, 0>>,
   <<ettLargeTuple, 128, 0, 0, 0>>, <<ettLargeTuple, 32, 0, 0, 0, ettNil>>,
   <<ettLargeTuple, 0, 2, 0, 1, ettNil>>,
   <<ettList, 127, 255, 255, 255>>, <<ettList, 128, 0, 0, 0>>,
   <<ettList, 255, 255, 255, 255>>, <<ettList, 0, 2, 0, 1, ettNil>>,
   <<ettFun, 32, 0, 0, 0>>}

\* the byte sequences a reader is made over
WireInputs ==
  {PidWire, PortWire, RefWire, RefWire \o <<ettNil>>, ExportWire, NewFunWire,
   FunWire, <<ettSmallTuple, 2, ettSmallInteger, 5, ettNil>>,
   <<ettNewRef, 0, 1, ettSmallAtom, 1, 110, 1, 0, 0, 0, 7>>}
  \cup BadChildWires \cup BrokenWires \cup LongWires \cup FloatWires

\* the Function values that decoding a NEW_FUN and a FUN term returns
FunctionInputs == {Decode(NewReader(NewFunWire)).term, Decode(NewReader(FunWire)).term}

EncodeInputs ==
  Pointees \cup {ptrT(v) : v \in Pointees} \cup BadValues \cup StructInputs
  \cup {tupleT(<<ptrT(intT(42)), intT(1)>>), ptrT(ptrT(intT(42)))}
  \cup FunctionInputs

(***************************************************************************)
(* State machine.  w is the buffer that the encoder writes to and the      *)
(* decoder reads from (the bytes it holds), dbuf the bytes that the        *)
(* decoder's bufio.Reader has taken from w and not yet handed out, hist    *)
(* the calls that wrote to w since it was created, decoded the results of  *)
(* the Decode calls on it, intBytes the size of the platform's int.        *)
(***************************************************************************)
Init ==
  /\ intBytes \in {4, 8}
  /\ w = <<>>
  /\ dbuf = <<>>
  /\ hist = <<>>
  /\ decoded = <<>>

\* the bytes written and not yet returned by a Decode call
unread == dbuf \o w

\* one call on a fresh buffer: the bytes written reach the stream whether
\* or not the call fails
Call(op, in, r) ==
  /\ decoded = <<>>
  /\ w' = w \o r.out
  /\ hist' = <<[op |-> op, in |-> in, out |-> r.out, err |-> r.err]>>
  /\ UNCHANGED <<intBytes, dbuf, decoded>>

WriteAtom == hist = <<>> /\ \E a \in AtomInputs : Call("writeAtom", a, writeAtom(a))

WriteBigInt == hist = <<>> /\ \E x \in BigInputs : Call("writeBigInt", x, writeBigInt(x))

WriteBinary == hist = <<>> /\ \E b \in BinaryInputs : Call("writeBinary", b, writeBinary(b))

WriteBool == hist = <<>> /\ \E b \in BOOLEAN : Call("writeBool", b, writeBool(b))

WriteFloat == hist = <<>> /\ \E f \in FloatInputs : Call("writeFloat", f, writeFloat(f))

WriteInt == hist = <<>> /\ \E x \in Int64Inputs : Call("writeInt", x, writeInt(x))

WriteUint == hist = <<>> /\ \E x \in Uint64Inputs : Call("writeUint", x, writeUint(x))

WritePid == hist = <<>> /\ \E p \in PidInputs : Call("writePid", p, writePid(p))

WriteString == hist = <<>> /\ \E x \in StringInputs : Call("writeString", x, writeString(x))

WriteRef == hist = <<>> /\ \E r \in RefInputs : Call("writeRef", r, writeRef(r))

DoEncodeTerm == hist = <<>> /\ \E v \in EncodeInputs : Call("EncodeTerm", v, EncodeTerm(v))

\* a decoder made over a reader that holds a LIST term
FeedList ==
  /\ hist = <<>>
  /\ \E l \in ListInputs :
    Call("feedList", l, [out |-> listWire(l), err |-> NoErr])

\* a decoder made over a reader that holds the bytes x
FeedBytes ==
  /\ hist = <<>>
  /\ \E x \in WireInputs : Call("feed", [bytes |-> x], [out |-> x, err |-> NoErr])

EncodeOnto(v, src) ==
  LET r == Encode(v) IN
  /\ w' = w \o r.out
  /\ hist' = Append(hist, [op |-> "Encode", in |-> v, out |-> r.out,
                           err |-> r.err, src |-> src])

\* Encode(v) on the buffer of the earlier Encode calls; v is a given value
\* or a term that Decode returned (TestWriteTerm encodes the decoded term)
DoEncode ==
  /\ Len(hist) < MaxFrames
  /\ \A i \in 1..Len(hist) : hist[i].op = "Encode"
  /\ \A i \in 1..Len(decoded) : decoded[i].err \notin Aborts
  /\ \/ \E v \in StreamValues : EncodeOnto(v, "value")
     \/ \E i \in 1..Len(decoded) :
          decoded[i].err = NoErr /\ EncodeOnto(decoded[i].term, "decoded")
  /\ UNCHANGED <<intBytes, dbuf, decoded>>

\* d.Decode() of the decoder over w; each result records the bytes it
\* consumed (n) and the bytes that were there to read (avail)
DoDecode ==
  /\ hist # <<>>
  /\ Len(decoded) <= Len(hist)
  /\ \A i \in 1..Len(decoded) : decoded[i].err \notin Aborts
  /\ LET r == Decode([bytes |-> unread, buffered |-> Len(dbuf)]) IN
     /\ decoded' = Append(decoded, [term |-> r.term, err |-> r.err,
                                    n |-> Len(unread) - Len(r.rest.bytes),
                                    avail |-> Len(unread)])
     /\ dbuf' = Take(r.rest.bytes, r.rest.buffered)
     /\ w' = Drop(r.rest.bytes, r.rest.buffered)
  /\ UNCHANGED <<intBytes, hist>>

\* w := new(bytes.Buffer), with a new encoder and decoder over it
NewBuffer ==
  /\ hist # <<>>
  /\ w' = <<>>
  /\ dbuf' = <<>>
  /\ hist' = <<>>
  /\ decoded' = <<>>
  /\ UNCHANGED intBytes

Next ==
  \/ WriteAtom
  \/ WriteBigInt
  \/ WriteBinary
  \/ WriteBool
  \/ WriteFloat
  \/ WriteInt
  \/ WriteUint
  \/ WritePid
  \/ WriteString
  \/ WriteRef
  \/ DoEncodeTerm
  \/ FeedList
  \/ FeedBytes
  \/ DoDecode
  \/ NewBuffer

Spec == Init /\ [][Next]_vars

NextStream ==
  \/ DoEncode
  \/ DoDecode
  \/ NewBuffer

SpecStream == Init /\ [][NextStream]_vars

\* Decode(b[off:], &target): the call is recorded with the slice, the
\* offset, the target before the call and the value that b encodes, if any
DecodeAt(b, off, target, from) ==
  LET call(r) == [op |-> "DecodeInto",
                  in |-> [b |-> b, off |-> off, target |-> target, from |-> from],
                  size |-> r.size, err |-> r.err, arg |-> r.arg, val |-> r.val]
  IN /\ hist' = Append(hist, call(DecodeInto(Drop(b, off), target)))
     /\ UNCHANGED <<intBytes, w, dbuf, decoded>>

\* Decode on a given slice, or on the bytes that Encode wrote for a value,
\* the target being the zero value of that value's type
DoDecodeInto ==
  /\ hist = <<>>
  /\ \/ \E b \in TypedSlices, t \in TypedTargets : DecodeAt(b, 0, t, Nil)
     \/ \E v \in TypedValues :
          Encode(v).err = NoErr /\ DecodeAt(Encode(v).out, 0, Zero(v), v)

\* Decode of the rest of the slice, at the sum of the sizes returned so far
DoDecodeIntoNext ==
  /\ hist # <<>>
  /\ Len(hist) < MaxFrames
  /\ \A i \in 1..Len(hist) : hist[i].op = "DecodeInto" /\ hist[i].err = NoErr
  /\ LET last == hist[Len(hist)]
         off == last.in.off + last.size
     IN /\ off < Len(last.in.b)
        /\ \E t \in TypedTargets : DecodeAt(last.in.b, off, t, Nil)

NextTyped ==
  \/ DoDecodeInto
  \/ DoDecodeIntoNext
  \/ NewBuffer

SpecTyped == Init /\ [][NextTyped]_vars

(***************************************************************************)
(* Properties                                                              *)
(***************************************************************************)
\* the one call made on the buffer is op
Called(op) == Len(hist) = 1 /\ hist[1].op = op

\* the first Decode on the buffer has returned
Decoded == Len(decoded) >= 1

\* ranges of an int64 / uint64 x, read off its bytes
InUint8(x) == Take(x, 7) = Rep(0, 7)

InInt32(x) ==
  \/ Take(x, 4) = Rep(0, 4) /\ x[5] < 128
  \/ Take(x, 4) = Rep(255, 4) /\ x[5] >= 128

\* C1: writeInt(x) / writeUint(u) followed by Decode returns, without
\* error and leaving no byte unread, an int or an int64 equal to x, resp.
\* an int, int64 or big integer whose unsigned 64-bit reading is u.
C1_IntegerRoundTrip ==
  /\ (Called("writeInt") \/ Called("writeUint")) => hist[1].err = NoErr
  /\ (Called("writeInt") /\ Decoded) =>
       /\ decoded[1].err = NoErr
       /\ decoded[1].n = Len(hist[1].out)
       /\ decoded[1].n = decoded[1].avail
       /\ decoded[1].term.kind \in {"int", "int64"}
       /\ decoded[1].term.v = hist[1].in
  /\ (Called("writeUint") /\ Decoded) =>
       /\ decoded[1].err = NoErr
       /\ decoded[1].n = Len(hist[1].out)
       /\ decoded[1].n = decoded[1].avail
       /\ decoded[1].term.kind \in {"int", "int64", "*big.Int"}
       /\ (IF decoded[1].term.kind = "*big.Int"
           THEN LowBytes(decoded[1].term.abs, 8)
           ELSE decoded[1].term.v) = hist[1].in

\* the largest uint64 has come back as a big integer
C1_Witness ==
  /\ Called("writeUint") /\ Decoded
  /\ hist[1].in = Rep(255, 8)
  /\ decoded[1].term.kind = "*big.Int"
  /\ decoded[1].term.abs = Rep(255, 8)

\* C2: writeInt(x) writes [SMALL_INTEGER, x] exactly when 0 <= x <= 255,
\* [INTEGER, the 4 low bytes of x] exactly when x is another signed 32-bit
\* number, and a SMALL_BIG / LARGE_BIG term exactly when x is not a signed
\* 32-bit number.
C2_SignedTagSelection ==
  Called("writeInt") =>
    LET x == hist[1].in
        out == hist[1].out
    IN /\ InUint8(x) <=> out = <<ettSmallInteger, x[8]>>
       /\ (InInt32(x) /\ ~InUint8(x)) <=> out = <<ettInteger, x[5], x[6], x[7], x[8]>>
       /\ ~InInt32(x) <=> out[1] \in {ettSmallBig, ettLargeBig}
       /\ Len(out) = 2 <=> InUint8(x)
       /\ Len(out) = 5 <=> (InInt32(x) /\ ~InUint8(x))

\* the smallest signed 32-bit number has been written as an INTEGER
C2_Witness ==
  /\ Called("writeInt")
  /\ hist[1].in = MinInt32
  /\ hist[1].out = <<ettInteger, 128, 0, 0, 0>>

\* C3: writeAtom writes SMALL_ATOM and a 1-byte length exactly when the atom
\* has at most 255 bytes, ATOM and a 2-byte big-endian length exactly when it
\* has 256..65535 bytes, and for a longer atom fails having written nothing.
C3_AtomTagSelection ==
  Called("writeAtom") =>
    LET a == hist[1].in
        L == Len(a)
        out == hist[1].out
        ok == hist[1].err = NoErr
    IN /\ L <= 255 <=> (ok /\ out = <<ettSmallAtom, L % 256>> \o a)
       /\ (255 < L /\ L <= 65535) <=>
            (ok /\ out = <<ettAtom, (L \div 256) % 256, L % 256>> \o a)
       /\ L > 65535 <=> (~ok /\ out = <<>>)
       /\ (~ok /\ ~Decoded) => w = <<>>

\* an atom of 256 bytes, the shortest that needs it, has been written with
\* the ATOM tag and a two-byte length
C3_Witness ==
  /\ Called("writeAtom")
  /\ Len(hist[1].in) = 256
  /\ Take(hist[1].out, 3) = <<ettAtom, 1, 0>>
  /\ Len(hist[1].out) = 259

\* C4: an atom of at most 65535 bytes other than "true" and "false" decodes
\* to the same Atom, all written bytes being read; "true" and "false"
\* decode to the booleans; writeBool(b) writes the SMALL_ATOM spelling of b,
\* which decodes to b.
C4_AtomBoolRoundTrip ==
  /\ (Called("writeAtom") /\ Decoded /\ Len(hist[1].in) <= 65535) =>
       /\ decoded[1].err = NoErr
       /\ decoded[1].n = Len(hist[1].out)
       /\ decoded[1].n = decoded[1].avail
       /\ hist[1].in \notin {bTrue, bFalse} =>
            decoded[1].term = [kind |-> "atom", v |-> hist[1].in]
       /\ hist[1].in = bTrue => decoded[1].term = [kind |-> "bool", b |-> TRUE]
       /\ hist[1].in = bFalse => decoded[1].term = [kind |-> "bool", b |-> FALSE]
  /\ Called("writeBool") =>
       /\ hist[1].err = NoErr
       /\ hist[1].out = IF hist[1].in THEN <<ettSmallAtom, 4>> \o bTrue
                        ELSE <<ettSmallAtom, 5>> \o bFalse
       /\ Decoded =>
            /\ decoded[1].err = NoErr
            /\ decoded[1].n = Len(hist[1].out)
            /\ decoded[1].n = decoded[1].avail
            /\ decoded[1].term = [kind |-> "bool", b |-> hist[1].in]

\* the atom "false" has been written as an atom and read as the boolean
C4_Witness ==
  /\ Called("writeAtom") /\ Decoded
  /\ hist[1].in = bFalse
  /\ decoded[1].term.kind = "bool"
  /\ ~decoded[1].term.b

\* C5: writeString(s) succeeds exactly when s has at most 65535 bytes and
\* writes nothing when it fails; on success it writes STRING, the 2-byte
\* big-endian length and the bytes of s, and Decode of that returns the
\* string s, all written bytes being read.
C5_StringCapRoundTrip ==
  Called("writeString") =>
    LET x == hist[1].in
        L == Len(x)
        out == hist[1].out
    IN /\ hist[1].err = NoErr <=> L <= 65535
       /\ hist[1].err # NoErr => out = <<>>
       /\ hist[1].err = NoErr => out = <<ettString, (L \div 256) % 256, L % 256>> \o x
       /\ (hist[1].err = NoErr /\ Decoded) =>
            /\ decoded[1].err = NoErr
            /\ decoded[1].term = [kind |-> "string", v |-> x]
            /\ decoded[1].n = Len(out)
            /\ decoded[1].n = decoded[1].avail

\* a string whose length needs both length bytes has been written and read
\* back
C5_Witness ==
  /\ Called("writeString") /\ Decoded
  /\ Len(hist[1].in) = 257
  /\ decoded[1].err = NoErr
  /\ decoded[1].term = [kind |-> "string", v |-> hist[1].in]

\* the big integer z fits a signed integer of n bytes
FitsSigned(z, n) ==
  \/ Len(z.abs) < n
  \/ Len(z.abs) = n /\ z.abs[1] < 128
  \/ z.neg /\ z.abs = <<128>> \o Rep(0, n - 1)

\* C6: writeBigInt(z) writes the SMALL_BIG / LARGE_BIG header, the sign
\* byte (1 exactly when z < 0) and the bytes of |z| in little-endian order;
\* Decode of it returns a value equal to z: an int when z fits one,
\* otherwise an int64 when z fits one, otherwise a big integer.
C6_BigIntRoundTrip ==
  Called("writeBigInt") =>
    LET z == hist[1].in
        L == Len(z.abs)
        out == hist[1].out
        t == decoded[1].term
    IN /\ hist[1].err = NoErr
       /\ out = (IF L <= 255 THEN <<ettSmallBig, L>> ELSE <<ettLargeBig>> \o u32(L))
                  \o <<IF z.neg THEN 1 ELSE 0>> \o [i \in 1..L |-> z.abs[L + 1 - i]]
       /\ Decoded =>
            /\ decoded[1].err = NoErr
            /\ decoded[1].n = Len(out)
            /\ decoded[1].n = decoded[1].avail
            /\ t.kind = "int" <=> FitsSigned(z, intBytes)
            /\ t.kind = "int64" <=> (~FitsSigned(z, intBytes) /\ FitsSigned(z, 8))
            /\ t.kind = "*big.Int" <=> ~FitsSigned(z, 8)
            /\ t.kind = "*big.Int" => (t.neg = z.neg /\ t.abs = z.abs)
            /\ t.kind # "*big.Int" => bigNewInt(t.v) = z

\* on a 32-bit build, a negative big integer of more than 32 bits has come
\* back as an int64
C6_Witness ==
  /\ Called("writeBigInt") /\ Decoded
  /\ intBytes = 4
  /\ hist[1].in.neg
  /\ Len(hist[1].in.abs) = 5
  /\ decoded[1].term.kind = "int64"

\* the terms that the element and tail encodings of a LIST input decode to
elemTerms(l) == [i \in 1..Len(l.elems) |-> Decode(NewReader(l.elems[i])).term]

\* C7: a LIST of count N decodes to the N-element list of its first N terms
\* if and only if its tail is the NIL marker; with any other tail, a
\* non-empty list included, the result has N+1 elements, the tail last.
C7_ListTail ==
  (Called("feedList") /\ Decoded) =>
    LET l == hist[1].in IN
    /\ decoded[1].err = NoErr
    /\ decoded[1].term.kind = "list"
    /\ l.tail = <<ettNil>> <=> Len(decoded[1].term.elems) = Len(l.elems)
    /\ l.tail = <<ettNil>> => decoded[1].term.elems = elemTerms(l)
    /\ l.tail # <<ettNil>> =>
         decoded[1].term.elems = elemTerms(l) \o <<Decode(NewReader(l.tail)).term>>

\* a Pid node that writePid and Decode both accept
NodeOk(n) == n \notin {bTrue, bFalse} /\ Len(n) <= 65535

\* C8, as stated: every Pid with such a node, any 32-bit Id and Serial and
\* any Creation comes back from writePid and Decode equal in all four
\* fields, no byte being left unread.
C8_PidRoundTripAnyId ==
  (Called("writePid") /\ NodeOk(hist[1].in.Node)) =>
    /\ hist[1].err = NoErr
    /\ Decoded =>
         /\ decoded[1].err = NoErr
         /\ decoded[1].n = Len(hist[1].out)
         /\ decoded[1].n = decoded[1].avail
         /\ decoded[1].term = hist[1].in

\* C8, amended: the Pid comes back with Node, Serial and Creation equal and
\* with the low 16 bits of Id, so equal in all four fields when Id < 2^16;
\* no byte is left unread.
C8_PidRoundTrip ==
  (Called("writePid") /\ NodeOk(hist[1].in.Node)) =>
    LET p == hist[1].in IN
    /\ hist[1].err = NoErr
    /\ Decoded =>
         /\ decoded[1].err = NoErr
         /\ decoded[1].n = Len(hist[1].out)
         /\ decoded[1].n = decoded[1].avail
         /\ decoded[1].term = [p EXCEPT !.Id = <<0, 0, p.Id[3], p.Id[4]>>]
         /\ (p.Id[1] = 0 /\ p.Id[2] = 0) => decoded[1].term = p

\* a Pid with the largest 16-bit Id and the largest Serial has come back equal
C8_Witness ==
  /\ Called("writePid") /\ Decoded
  /\ hist[1].in.Id = <<0, 0, 255, 255>>
  /\ hist[1].in.Serial = <<255, 255, 255, 255>>
  /\ Len(hist[1].in.Node) = 256
  /\ decoded[1].err = NoErr
  /\ decoded[1].term = hist[1].in

\* every call on the buffer was a successful Encode
AllOk == \A i \in 1..Len(hist) : hist[i].op = "Encode" /\ hist[i].err = NoErr

\* no Decode was called on an empty stream
NoIdle == \A j \in 1..Len(decoded) : decoded[j].avail > 0

\* the frames written from the i-th on, concatenated
framesFrom(i) == Flatten([k \in 1..(Len(hist) - i + 1) |-> hist[i + k - 1].out])

\* kinds of values that Decode returns as they were given to Encode
SameKinds == {"bool", "int", "string", "[]byte", "float64", "atom"}

\* what C9 says of the calls made so far, the first two parts holding of
\* runs that satisfy pre
FramingOf(pre) ==
  /\ \A i \in 1..Len(hist) :
       (hist[i].op = "Encode" /\ hist[i].err = NoErr) =>
         /\ hist[i].out[1] = EtVersion
         /\ Tail(hist[i].out) = EncodeTerm(hist[i].in).out
  /\ (AllOk /\ NoIdle /\ pre) =>
       /\ \A j \in 1..Len(decoded) :
            /\ j <= Len(hist)
            /\ decoded[j].err = NoErr
            /\ decoded[j].n = Len(hist[j].out)
            /\ Decode(NewReader(hist[j].out)) =
                 [term |-> decoded[j].term, err |-> NoErr, rest |-> NewReader(<<>>)]
            /\ hist[j].in.kind \in SameKinds => decoded[j].term = hist[j].in
       /\ unread = framesFrom(Len(decoded) + 1)
       /\ Len(decoded) = Len(hist) => unread = <<>>
  /\ \A i \in 1..Len(hist) :
       (hist[i].op = "Encode" /\ hist[i].src = "decoded"
          /\ \A k \in 1..(i - 1) : hist[k].err = NoErr /\ pre) => hist[i].err = NoErr

\* C9, as stated: each Encode(v) appends the version byte and the term
\* encoding of v; after any successful Encode calls, the j-th Decode returns
\* the term of the j-th frame and reads exactly that frame, so that the
\* stream is empty once every frame is read; a term that Decode returned
\* can be encoded again without error.
C9_FramingAnyValue == FramingOf(TRUE)

RECURSIVE Decodable(_)

\* no Pid or Ref that v holds has the node true or false, and no Ref has
\* more ids than the 2-byte count of NEW_REFERENCE can hold
Decodable(v) ==
  CASE v.kind = "pid" -> NodeOk(v.Node)
    [] v.kind = "ref" -> NodeOk(v.Node) /\ Len(v.Id) <= MaxUint16
    [] v.kind \in {"tuple", "list", "slice", "array"} ->
         \A i \in 1..Len(v.elems) : Decodable(v.elems[i])
    [] v.kind = "struct" ->
         \A i \in 1..Len(v.fields) : keepField(v.fields[i]) => Decodable(v.fields[i].val)
    [] OTHER -> TRUE

\* C9, amended: the same, of the runs of successful Encode calls whose
\* values hold no Pid or Ref with the node true or false and no Ref of more
\* than 65535 ids; the terms that Decode returns are such values again.
C9_Framing ==
  /\ FramingOf(\A i \in 1..Len(hist) : Decodable(hist[i].in))
  /\ (AllOk /\ NoIdle /\ \A i \in 1..Len(hist) : hist[i].src = "value" => Decodable(hist[i].in)) =>
       \A j \in 1..Len(decoded) : Decodable(decoded[j].term)

\* two frames, the second the re-encoding of the term decoded from the
\* first, have been written and read, and the stream is empty
C9_Witness ==
  /\ Len(hist) >= 2 /\ AllOk /\ NoIdle
  /\ hist[1].in.kind = "struct"
  /\ hist[2].src = "decoded"
  /\ Len(decoded) = Len(hist)
  /\ unread = <<>>

\* C10: EncodeTerm of a pointer to v writes the bytes that EncodeTerm of v
\* writes, and returns the same error.
C10_PointerTransparent ==
  (Called("EncodeTerm") /\ hist[1].in.kind = "ptr") =>
    /\ hist[1].out = EncodeTerm(hist[1].in.elem).out
    /\ hist[1].err = EncodeTerm(hist[1].in.elem).err

\* the exported, non-embedded fields of a struct value, by index
Kept(fs) == {i \in 1..Len(fs) : fs[i].Exported /\ ~fs[i].Anonymous}

\* the bytes that EncodeTerm writes for the fields of Kept up to index j
KeptBytes(fs, j) ==
  Flatten([i \in 1..j |-> IF i \in Kept(fs) THEN EncodeTerm(fs[i].val).out ELSE <<>>])

\* C11: for a struct value, writeRecord writes a SMALL_TUPLE header (a
\* LARGE_TUPLE one above 255) whose arity is the number of exported,
\* non-embedded fields, then the encodings of exactly those fields in
\* declaration order and nothing else; it stops after the first field that
\* fails to encode and returns that field's error.
C11_RecordMapping ==
  (Called("EncodeTerm") /\ hist[1].in.kind = "struct") =>
    LET fs == hist[1].in.fields
        n == Cardinality(Kept(fs))
        hdr == IF n <= 255 THEN <<ettSmallTuple, n>>
               ELSE <<ettLargeTuple, 0, 0, n \div 256, n % 256>>
        bad == {i \in Kept(fs) : EncodeTerm(fs[i].val).err # NoErr}
    IN IF bad = {} THEN
         /\ hist[1].err = NoErr
         /\ hist[1].out = hdr \o KeptBytes(fs, Len(fs))
       ELSE
         LET j == CHOOSE i \in bad : \A k \in bad : i <= k IN
         /\ hist[1].err = EncodeTerm(fs[j].val).err
         /\ hist[1].out = hdr \o KeptBytes(fs, j)

\* a struct of 256 exported fields, one unexported and one embedded field
\* has been written as a LARGE_TUPLE of arity 256
C11_Witness ==
  /\ Called("EncodeTerm") /\ hist[1].in.kind = "struct"
  /\ hist[1].err = NoErr
  /\ Len(hist[1].in.fields) = 258
  /\ \E i \in 1..258 : hist[1].in.fields[i].Anonymous
  /\ \E i \in 1..258 : ~hist[1].in.fields[i].Exported
  /\ Take(hist[1].out, 5) = <<ettLargeTuple, 0, 0, 1, 0>>
  /\ Len(hist[1].out) = 5 + 2 * 256

\* C12: for a struct value v of type T, the arity that the bridge requires
\* of a target of type T is the arity that the writer emits for v, so that
\* Decode of the bytes of Encode(v) into a T target passes the arity check.
C12_ArityAgreement ==
  (Called("DecodeInto") /\ hist[1].in.from.kind = "struct") =>
    /\ Len(hist[1].in.target.fields) = hist[1].in.b[3]
    /\ hist[1].err # StructuralError

\* the calls that decodeStruct makes for the fields of the struct target t
\* when the wire arity matches, x being the bytes after the version byte
\* and hdr the size of the tuple header: field i is decoded at the offset
\* where field i - 1 ended
FieldCalls(x, t, hdr) ==
  LET n == Len(t.fields)
      ptr(i) == [elem |-> t.fields[i].val, ro |-> ~t.fields[i].Exported,
                 sticky |-> ~t.fields[i].Exported /\ ~t.fields[i].Anonymous]
      off[i \in 1..n] ==
        IF i = 1 THEN hdr ELSE off[i - 1] + decode(Drop(x, off[i - 1]), ptr(i - 1)).size
  IN [i \in 1..n |-> [off |-> off[i], r |-> decode(Drop(x, off[i]), ptr(i))]]

\* C13: Decode into a struct target returns SyntaxError("not a tuple") when
\* the first byte of the term is neither SMALL_TUPLE nor LARGE_TUPLE, and
\* StructuralError when the header is cut short or the wire arity is not
\* the target's field count, the target being left as it was; when the
\* arity matches, the fields are decoded in declaration order, each where
\* the one before ended, up to the first field that fails, whose error is
\* returned, the later fields being left as they were.
C13_StructTargetErrors ==
  (Called("DecodeInto") /\ hist[1].in.target.kind = "struct"
     /\ hist[1].in.b # <<>> /\ hist[1].in.b[1] = EtVersion) =>
    LET x == Tail(hist[1].in.b)
        t == hist[1].in.target
        h == hist[1]
        isTuple == x # <<>> /\ x[1] \in {ettSmallTuple, ettLargeTuple}
        hdr == IF x # <<>> /\ x[1] = ettLargeTuple THEN 5 ELSE 2
        arity == IF hdr = 2 THEN x[2] ELSE x[4] * 256 + x[5]
    IN /\ h.err \notin {PanicIndex, PanicUnexported}
       /\ (x # <<>> /\ ~isTuple) =>
            h.err = SyntaxError /\ h.arg = <<"not a tuple">> /\ h.val = t
       /\ (x = <<>> \/ (isTuple /\ Len(x) < hdr)) =>
            h.err = StructuralError /\ h.val = t
       /\ (isTuple /\ Len(x) >= hdr /\ arity # Len(t.fields)) =>
            h.err = StructuralError /\ h.val = t
       /\ (isTuple /\ Len(x) >= hdr /\ arity = Len(t.fields)) =>
            LET c == FieldCalls(x, t, hdr)
                bad == {i \in 1..arity : c[i].r.err # NoErr}
            IN IF bad = {} THEN
                 /\ h.err = NoErr
                 /\ \A i \in 1..arity : h.val.fields[i].val = c[i].r.val
               ELSE
                 LET j == CHOOSE i \in bad : \A k \in bad : i <= k IN
                 /\ h.err = c[j].r.err
                 /\ \A i \in 1..j : h.val.fields[i].val = c[i].r.val
                 /\ \A i \in (j + 1)..arity : h.val.fields[i] = t.fields[i]

\* the bytes of s that n successive calls of the stream decoder read
ReadBy(s, n) == Len(s) - Len(DecodeN(NewReader(s), n).rest.bytes)

\* C14: Decode(b, ptr) returns VersionError with b[0] and leaves the target
\* as it was whenever b[0] is not 131; when it is, a successful call returns
\* 1 plus the length of the term, so that the i-th call, made at the sum of
\* the sizes returned before, starts at the i-th framed term of the slice
\* and ends where the term ends; for a struct target (the struct types of
\* the package included) the size is 1 plus the tuple header plus the sizes
\* its fields consumed.
C14_VersionAndSize ==
  \A i \in 1..Len(hist) :
    (hist[i].op = "DecodeInto" /\ Len(hist[i].in.b) > hist[i].in.off) =>
      LET h == hist[i]
          x == Drop(h.in.b, h.in.off)
          y == Tail(x)
          t == h.in.target
      IN /\ x[1] # EtVersion =>
              /\ h.err = VersionError /\ h.arg = <<x[1]>>
              /\ h.val = t /\ h.size = 0
         /\ x[1] = EtVersion => h.err # VersionError /\ h.size >= 1
         /\ (x[1] = EtVersion /\ h.err = NoErr) =>
              /\ Decode(NewReader(y)).err = NoErr =>
                   h.size = 1 + Len(y) - Len(Decode(NewReader(y)).rest.bytes)
              /\ h.in.off = IF i = 1 THEN 0 ELSE hist[i - 1].in.off + hist[i - 1].size
              /\ DecodeN(NewReader(h.in.b), i).err = NoErr =>
                   /\ h.in.off = ReadBy(h.in.b, i - 1)
                   /\ h.in.off + h.size = ReadBy(h.in.b, i)
         /\ (x[1] = EtVersion
               /\ t.kind \in {"struct", "pid", "port", "ref", "function", "export"}
               /\ y # <<>>
               /\ y[1] \in {ettSmallTuple, ettLargeTuple}
               /\ Len(y) >= (IF y[1] = ettLargeTuple THEN 5 ELSE 2)
               /\ h.err \notin {PanicIndex, PanicUnexported}) =>
              LET hdr == IF y[1] = ettLargeTuple THEN 5 ELSE 2
                  arity == IF hdr = 2 THEN y[2] ELSE y[4] * 256 + y[5]
                  st == structOf(t)
                  c == FieldCalls(y, st, hdr)
                  bad == {k \in 1..Len(st.fields) : c[k].r.err # NoErr}
                  last == IF bad = {} THEN Len(st.fields)
                          ELSE CHOOSE k \in bad : \A m \in bad : k <= m
              IN arity = Len(st.fields) =>
                   h.size = 1 + (IF last = 0 THEN hdr
                                 ELSE c[last].off + c[last].r.size)

\* two framed terms of one slice have been decoded, the first into a
\* struct of three fields, the second at the size the first call returned
C14_Witness ==
  /\ Len(hist) = 2
  /\ \A i \in 1..2 : hist[i].op = "DecodeInto" /\ hist[i].err = NoErr
  /\ hist[1].in.target.kind = "struct" /\ Len(hist[1].in.target.fields) = 3
  /\ hist[1].size = 14
  /\ hist[2].in.off = 14
  /\ hist[2].in.target.kind = "atom" /\ hist[2].val = atomTerm(<<111, 107>>)
  /\ hist[2].in.off + hist[2].size = Len(hist[2].in.b)

\* a big-endian magnitude without its leading zero bytes
RECURSIVE Magnitude(_)
Magnitude(bs) == IF bs = <<>> \/ bs[1] # 0 THEN bs ELSE Magnitude(Tail(bs))

\* the integer that the whole SMALL_INTEGER, INTEGER or SMALL_BIG term at
\* the head of x stands for, as a sign and a magnitude
WireInt(x) ==
  CASE x[1] = ettSmallInteger -> [neg |-> FALSE, abs |-> Magnitude(<<x[2]>>)]
    [] x[1] = ettInteger ->
         LET q == SubSeq(x, 2, 5) IN
         IF q[1] >= 128 THEN [neg |-> TRUE, abs |-> Magnitude(Neg2c(q))]
         ELSE [neg |-> FALSE, abs |-> Magnitude(q)]
    [] OTHER ->
         LET m == Magnitude(reverse(SubSeq(x, 4, 3 + x[2]))) IN
         [neg |-> x[3] # 0 /\ m # <<>>, abs |-> m]

\* x starts with a whole integer term of one of these three kinds
WholeInt(x) ==
  /\ x # <<>>
  /\ \/ x[1] = ettSmallInteger /\ Len(x) >= 2
     \/ x[1] = ettInteger /\ Len(x) >= 5
     \/ x[1] = ettSmallBig /\ Len(x) >= 3 /\ Len(x) >= 3 + x[2]

\* the integer z is a value of the integer type k
Fits(k, z) ==
  LET s == intSize(k) IN
  IF k \in IntKinds
  THEN \/ Len(z.abs) < s
       \/ Len(z.abs) = s /\ z.abs[1] < 128
       \/ z.neg /\ z.abs = <<128>> \o Rep(0, s - 1)
  ELSE ~z.neg /\ Len(z.abs) <= s

\* the 8 bytes of z in a 64-bit integer
Bits64(z) ==
  LET q == Rep(0, 8 - Len(z.abs)) \o z.abs IN IF z.neg THEN Neg2c(q) ELSE q

\* C15: decoding a whole integer term into a target of a signed or unsigned
\* integer type (int, int8 to int64, uint, uint8 to uint64, uintptr) returns
\* OverflowError carrying the integer and the type of the target, and leaves
\* the target as it was, when the integer is not a value of the type; when
\* the integer is a value of the type, the target is set to exactly that
\* integer.  A byte array is filled when the BINARY has its length, and left
\* as it was with OverflowError otherwise.
C15_RangeChecked ==
  (Called("DecodeInto") /\ hist[1].in.b # <<>> /\ hist[1].in.b[1] = EtVersion) =>
    LET h == hist[1]
        x == Tail(h.in.b)
        t == h.in.target
    IN /\ (t.kind \in IntKinds \cup UintKinds /\ WholeInt(x)) =>
            LET z == WireInt(x) IN
            IF Fits(t.kind, z)
            THEN h.err = NoErr /\ h.val = [kind |-> t.kind, v |-> Bits64(z)]
            ELSE /\ h.err = OverflowError
                 /\ h.val = t
                 /\ Len(h.arg) = 2
                 /\ h.arg[2] = t.kind
                 /\ h.arg[1] = IF t.kind \in {"int64", "uint64"} THEN z ELSE Bits64(z)
       /\ (t.kind = "array" /\ elemKind(t) = "uint8" /\ Len(x) >= 5
             /\ x[1] = ettBinary /\ Len(x) >= 5 + beUint(SubSeq(x, 2, 5))) =>
            LET n == beUint(SubSeq(x, 2, 5)) IN
            IF n = Len(t.elems)
            THEN /\ h.err = NoErr
                 /\ h.val.kind = "array"
                 /\ h.val.elems = [i \in 1..n |-> u8Term(x[5 + i])]
            ELSE h.err = OverflowError /\ h.val = t

\* C16: whenever Decode returns an error, the term it returns is nil: a
\* tuple whose i-th child fails is not returned partly filled, and a
\* SMALL_INTEGER or INTEGER that is cut short returns no number.
C16_NoPartialValue ==
  (Called("feed") /\ Decoded) => (decoded[1].err # NoErr => decoded[1].term = Nil)

\* C17: Decode on a PID, PORT, REFERENCE, NEW_REFERENCE or EXPORT whose node
\* or module slot holds a term that is not an atom (the atoms true and
\* false included), or on a NEW_FUN or FUN whose module, old index, old
\* unique or pid child is missing, cut short or of the wrong kind, returns
\* an error and does not abort.
C17_ChildErrorsReturned ==
  (Called("feed") /\ Decoded /\ hist[1].in.bytes \in BadChildWires) =>
    /\ decoded[1].err # NoErr
    /\ decoded[1].err \notin Aborts

\* C18: EncodeTerm of a map and of a Function value that Decode returned
\* for a NEW_FUN or FUN term returns the unknown-type error and writes no
\* bytes.
C18_UnsupportedRejected ==
  (Called("EncodeTerm") /\ hist[1].in.kind \in {"map", "function"}) =>
    /\ hist[1].err = ErrUnknownType
    /\ hist[1].out = <<>>

\* C19: Decode on a whole REFERENCE term (node atom n, id 7, creation 1)
\* returns without error the Ref of that node, of the one id 7 and of
\* creation 1, having read the term up to its creation byte and no further.
C19_LegacyReference ==
  (Called("feed") /\ Decoded /\ hist[1].in.bytes \in {RefWire, RefWire \o <<ettNil>>}) =>
    /\ decoded[1].err = NoErr
    /\ decoded[1].term = [kind |-> "ref", Node |-> <<110>>, Creation |-> 1,
                          Id |-> <<<<0, 0, 0, 7>>>>]
    /\ decoded[1].n = Len(RefWire)

====
